---- MODULE Spec2Model ----
(***************************************************************************)
(* Model of pyrefsearch: the name normalizer, the roster matcher of the    *)
(* patent sources, and the per-source fetch / deduplication pipelines      *)
(* (Scopus, OpenAlex, USPTO, espacenet).                                   *)
(*                                                                         *)
(* A Python str is a sequence of characters; a character is a one-token    *)
(* TLA+ string.  Non-ASCII characters are written as ASCII tokens:         *)
(*   "e_acute" = U+00E9, "E_ACUTE" = U+00C9, "c_cedilla" = U+00E7,          *)
(*   "th_ro_rua" = U+0E23, "th_ngo_ngu" = U+0E07.                           *)
(***************************************************************************)
EXTENDS Integers, Sequences, FiniteSets, TLC

VARIABLES
    \* harness of the normalizer (utils.py / pyrefsearch.py)
    nm_s, nm_t, nm_ns, nm_nt, nm_nns, nm_old, nm_oldold,
    \* harness of the patent roster matchers
    m_au_names, m_inventors, m_uspto, m_espacenet, m_tabulate,
    \* the run of one query function
    source,                     \* which query function runs
    pc,                         \* where it stands
    idx,                        \* index of the roster author of the current loop turn
    au_names, au_ids,           \* ReferenceQuery: the roster
    openalex_ids,
    publications,               \* the DataFrame accumulated over the authors
    pub_type_counts_by_author,
    result,                     \* the DataFrame the query function returns
    pub_type_counts,            \* the transposed counts it returns
    warnings,                   \* WARNING lines printed on the console
    \* query_publications_and_patents: the two USPTO searches
    uspto_raw_patents, uspto_raw_applications,      \* what _query_uspto returned
    uspto_patents, uspto_patent_application_ids, uspto_patent_counts_by_author,
    uspto_patent_applications, uspto_patent_application_counts_by_author,
    \* query_espacenet_patents_and_applications
    espacenet_max_retries,      \* ReferenceQuery.espacenet_max_retries
    retries,                    \* the counter of the current retry loop
    success,                    \* the flag of the current retry loop
    nb_calls, nb_sleeps,        \* calls of Inpadoc.objects and of time.sleep in the loop
    errors,                     \* error messages printed before exit()
    patent_families_raw, patent_families,
    espacenet_applications, espacenet_application_counts_by_author,
    espacenet_patents, espacenet_patent_counts_by_author,
    \* the clean-up function of a publication source applied to its own output
    result_again,
    \* main(): the configuration and the files it starts from, and what it leaves
    cfg,                        \* pyrefsearch.toml and the state of the Excel files
    exit_status,                \* exit status of the process once it has ended
    queries,                    \* requests sent to the external services so far
    report_written,             \* the output Excel file has been written
    author_profiles,            \* DataFrame of query_scopus_author_profiles_by_id
    results_summary,            \* DataFrame of _create_results_summary_df
    \* harness of ReferenceQuery.extract_authors_from_df
    ex_in, ex_out,
    \* harness of the "Affl/ID" column of the author profiles found by name,
    \* and of the check of the OpenAlex profiles found by ID
    fl_in, fl_out

normVars == <<nm_s, nm_t, nm_ns, nm_nt, nm_nns, nm_old, nm_oldold>>
matchVars == <<m_au_names, m_inventors, m_uspto, m_espacenet, m_tabulate>>
rosterVars == <<au_names, au_ids, openalex_ids>>
pubVars == <<publications, pub_type_counts_by_author, result, pub_type_counts, warnings>>
usptoVars == <<uspto_raw_patents, uspto_raw_applications, uspto_patents,
               uspto_patent_application_ids, uspto_patent_counts_by_author,
               uspto_patent_applications, uspto_patent_application_counts_by_author>>
espacenetOut == <<espacenet_applications, espacenet_application_counts_by_author,
                  espacenet_patents, espacenet_patent_counts_by_author>>
loopVars == <<success, nb_calls, nb_sleeps>>
espacenetVars == <<espacenet_max_retries, retries, loopVars, errors,
                   patent_families_raw, patent_families, espacenetOut>>
mainVars == <<cfg, exit_status, queries, report_written, author_profiles,
             results_summary>>
\* mainVars without the log of the requests
noQueryVars == <<cfg, exit_status, report_written, author_profiles, results_summary>>
flagVars == <<fl_in, fl_out>>
extractVars == <<ex_in, ex_out, flagVars>>
otherVars == <<result_again, mainVars, extractVars>>
runVars == <<source, pc, idx, rosterVars, pubVars, usptoVars, espacenetVars, otherVars>>
harnessVars == <<normVars, matchVars>>
vars == <<normVars, matchVars, runVars>>

\* a result that is not computed yet is <<>>, a computed result v is <<v>>
NoVal == <<>>
Some(v) == <<v>>
IsSome(x) == Len(x) = 1
Val(x) == x[1]

\* an error message printed on the console: what failed, for which author
diagnostic(what, author) ==
    [what |-> what, author |-> author, cause |-> "", essais |-> 1]

-----------------------------------------------------------------------------
(* Bounds *)
MaxLen == 2
MaxInventors == 2
MaxResults == 2
MaxRetries == 2
MaxFamilies == 1

-----------------------------------------------------------------------------
(* Python str primitives *)

UpperLetters == <<"A","B","C","D","E","F","G","H","I","J","K","L","M",
                  "N","O","P","Q","R","S","T","U","V","W","X","Y","Z">>
LowerLetters == <<"a","b","c","d","e","f","g","h","i","j","k","l","m",
                  "n","o","p","q","r","s","t","u","v","w","x","y","z">>

\* str.lower() on one character
LowerOf ==
    [c \in {UpperLetters[i] : i \in 1..26} |->
        LowerLetters[CHOOSE i \in 1..26 : UpperLetters[i] = c]]

LowerChar(c) ==
    IF c \in DOMAIN LowerOf THEN LowerOf[c]
    ELSE IF c = "E_ACUTE" THEN "e_acute"
    ELSE c

\* str.lower()
lower(s) == [i \in 1..Len(s) |-> LowerChar(s[i])]

\* characters str.strip() removes
IsSpace(c) == c = " "

\* str.strip()
RECURSIVE lstrip(_)
lstrip(s) == IF s # <<>> /\ IsSpace(Head(s)) THEN lstrip(Tail(s)) ELSE s

RECURSIVE rstrip(_)
rstrip(s) ==
    IF s # <<>> /\ IsSpace(s[Len(s)]) THEN rstrip(SubSeq(s, 1, Len(s) - 1)) ELSE s

strip(s) == rstrip(lstrip(s))

\* str.replace(old, new), old non-empty: leftmost non-overlapping occurrences
RECURSIVE replace_from(_, _, _)
replace_from(s, old, new) ==
    IF Len(s) < Len(old) THEN s
    ELSE IF SubSeq(s, 1, Len(old)) = old
         THEN new \o replace_from(SubSeq(s, Len(old) + 1, Len(s)), old, new)
         ELSE <<Head(s)>> \o replace_from(Tail(s), old, new)

\* Python "a in b" on strings
In(a, b) == \E i \in 0..(Len(b) - Len(a)) : SubSeq(b, i + 1, i + Len(a)) = a

\* a string without occurrence of old is returned as it is
replace(s, old, new) == IF In(old, s) THEN replace_from(s, old, new) ELSE s

\* unidecode() on one character: ASCII is kept, accented Latin letters lose
\* the accent, Thai letters are romanised
UnidecodeChar(c) ==
    IF c = "e_acute" THEN <<"e">>
    ELSE IF c = "E_ACUTE" THEN <<"E">>
    ELSE IF c = "c_cedilla" THEN <<"c">>
    ELSE IF c = "th_ro_rua" THEN <<"r">>
    ELSE IF c = "th_ngo_ngu" THEN <<"n", "g">>
    ELSE <<c>>

RECURSIVE unidecode_from(_)
unidecode_from(s) ==
    IF s = <<>> THEN <<>> ELSE UnidecodeChar(Head(s)) \o unidecode_from(Tail(s))

\* unidecode(): a string of ASCII characters is returned as it is
unidecode(s) ==
    IF \A i \in 1..Len(s) : UnidecodeChar(s[i]) = <<s[i]>> THEN s
    ELSE unidecode_from(s)

-----------------------------------------------------------------------------
(* The name normalizers *)

\* utils.py: unidecode(s.lower().strip()).replace("-", " ").replace("รง", "c")
to_lower_no_accents_no_hyphens(s) ==
    replace(replace(unidecode(strip(lower(s))), <<"-">>, <<" ">>),
            <<"th_ro_rua", "th_ngo_ngu">>, <<"c">>)

\* pyrefsearch.py: unidecode(s.replace("-", " ").lower().strip())
old_to_lower_no_accents_no_hyphens(s) ==
    unidecode(strip(lower(replace(s, <<"-">>, <<" ">>))))

-----------------------------------------------------------------------------
(* Names used as inputs *)

Charette == <<"C","h","a","r","e","t","t","e">>
Paul == <<"P","a","u","l">>
Hunter == <<"H","u","n","t","e","r">>
Ian == <<"I","a","n">>
Jean == <<"J","e","a","n">>
EricPaulAccent == <<"E_ACUTE","r","i","c","-","P","a","u","l">>
eric_paul == <<"e","r","i","c"," ","p","a","u","l">>

\* inventor strings as the patent sources return them
P_Charette_CA == <<"P","."," ","C","h","a","r","e","t","t","e"," ","(","C","A",")">>
Paul_Charrette == <<"P","a","u","l"," ","C","h","a","r","r","e","t","t","e">>
Paul_Charette_CA == <<"P","a","u","l"," ","C","h","a","r","e","t","t","e"," ","(","C","A",")">>
Jean_Charette_CA == <<"J","e","a","n"," ","C","h","a","r","e","t","t","e"," ","(","C","A",")">>
Ian_Hunter_US == <<"I","a","n"," ","H","u","n","t","e","r"," ","(","U","S",")">>
Jane_Doe_US == <<"J","a","n","e"," ","D","o","e"," ","(","U","S",")">>
CHARETTE_PAUL_CA == <<"C","H","A","R","E","T","T","E",","," ","P","A","U","L"," ","[","C","A","]">>
HUNTER_JEAN_CA == <<"H","U","N","T","E","R",","," ","J","E","A","N"," ","[","C","A","]">>

InventorStrings ==
    {P_Charette_CA, Paul_Charrette, Paul_Charette_CA, Jean_Charette_CA,
     Ian_Hunter_US, Jane_Doe_US, CHARETTE_PAUL_CA, HUNTER_JEAN_CA}

\* rosters: au_names is a list of [Nom, Prenom]
AuNamesChoices ==
    {<< <<Charette, Paul>> >>,
     << <<Charette, Paul>>, <<Hunter, Ian>> >>,
     << <<Charette, Paul>>, <<Charette, Jean>> >>,
     << <<Hunter, Ian>>, <<Charette, EricPaulAccent>> >>}

Alphabet == {"a", "A", "e_acute", "E_ACUTE", "-", " "}

\* all strings of at most n characters of Alphabet
Strings(n) == UNION {[1..k -> Alphabet] : k \in 0..n}

SeqsUpTo(S, n) == UNION {[1..k -> S] : k \in 1..n}

-----------------------------------------------------------------------------
(* The roster matchers of the patent sources *)

\* search_uspto.py: the "local inventors" lambda, a list of last names
RECURSIVE uspto_local_inventors(_, _)
uspto_local_inventors(inventors, names) ==
    IF names = <<>> THEN <<>>
    ELSE LET lastname == names[1][1]
             firstname == names[1][2]
             hit == \E k \in 1..Len(inventors) :
                        /\ In(to_lower_no_accents_no_hyphens(lastname),
                              to_lower_no_accents_no_hyphens(inventors[k]))
                        /\ In(to_lower_no_accents_no_hyphens(firstname),
                              to_lower_no_accents_no_hyphens(inventors[k]))
         IN  (IF hit THEN <<lastname>> ELSE <<>>)
                 \o uspto_local_inventors(inventors, Tail(names))

\* search_espacenet.py: the "Inventeurs locaux" lambda; both conjuncts test name[0]
RECURSIVE espacenet_local_inventors(_, _)
espacenet_local_inventors(inventors, names) ==
    IF names = <<>> THEN <<>>
    ELSE LET name == names[1]
             hit == \E k \in 1..Len(inventors) :
                        /\ In(to_lower_no_accents_no_hyphens(name[1]),
                              to_lower_no_accents_no_hyphens(inventors[k]))
                        /\ In(to_lower_no_accents_no_hyphens(name[1]),
                              to_lower_no_accents_no_hyphens(inventors[k]))
         IN  (IF hit THEN <<name[1]>> ELSE <<>>)
                 \o espacenet_local_inventors(inventors, Tail(names))

\* utils.py: tabulate_patents_per_author.inventor_match, lastname and firstname
\* being the loop variables of the enclosing function
inventor_match_or(inventors, lastname, firstname) ==
    \E k \in 1..Len(inventors) :
        \/ In(to_lower_no_accents_no_hyphens(lastname),
              to_lower_no_accents_no_hyphens(inventors[k]))
        \/ In(to_lower_no_accents_no_hyphens(firstname),
              to_lower_no_accents_no_hyphens(inventors[k]))

inventor_match(inventors, lastname, firstname) ==
    \E k \in 1..Len(inventors) :
        /\ In(to_lower_no_accents_no_hyphens(lastname),
              to_lower_no_accents_no_hyphens(inventors[k]))
        /\ In(to_lower_no_accents_no_hyphens(firstname),
              to_lower_no_accents_no_hyphens(inventors[k]))

-----------------------------------------------------------------------------
(* Harness of the normalizer: the inputs are drawn in the initial state and  *)
(* each action is one call.                                                  *)

NormInputs == Strings(MaxLen) \cup {EricPaulAccent, eric_paul}

NormIdle ==
    /\ nm_s = <<>> /\ nm_t = <<>>
    /\ nm_ns = NoVal /\ nm_nt = NoVal /\ nm_nns = NoVal
    /\ nm_old = NoVal /\ nm_oldold = NoVal

MatchIdle ==
    /\ m_au_names = <<>> /\ m_inventors = <<>>
    /\ m_uspto = NoVal /\ m_espacenet = NoVal /\ m_tabulate = NoVal

UsptoIdle ==
    /\ uspto_raw_patents = <<>> /\ uspto_raw_applications = <<>>
    /\ uspto_patents = <<>> /\ uspto_patent_application_ids = <<>>
    /\ uspto_patent_counts_by_author = <<>>
    /\ uspto_patent_applications = <<>>
    /\ uspto_patent_application_counts_by_author = <<>>

EspacenetIdle ==
    /\ retries = 0 /\ errors = <<>>
    /\ success = FALSE /\ nb_calls = 0 /\ nb_sleeps = 0
    /\ patent_families_raw = <<>> /\ patent_families = <<>>
    /\ espacenet_applications = <<>> /\ espacenet_application_counts_by_author = <<>>
    /\ espacenet_patents = <<>> /\ espacenet_patent_counts_by_author = <<>>

MainIdle ==
    /\ cfg = NoVal /\ exit_status = NoVal /\ queries = <<>>
    /\ report_written = FALSE /\ author_profiles = <<>>
    /\ results_summary = NoVal

FlagIdle ==
    /\ fl_in = NoVal /\ fl_out = NoVal

ExtractIdle ==
    /\ ex_in = NoVal /\ ex_out = NoVal
    /\ FlagIdle

OtherIdle ==
    /\ result_again = NoVal
    /\ MainIdle
    /\ ExtractIdle

RunIdleButOther ==
    /\ source = "none" /\ pc = "idle" /\ idx = 0
    /\ au_names = <<>> /\ au_ids = <<>> /\ openalex_ids = <<>>
    /\ publications = <<>> /\ pub_type_counts_by_author = <<>>
    /\ result = <<>> /\ pub_type_counts = <<>> /\ warnings = <<>>
    /\ UsptoIdle
    /\ EspacenetIdle /\ espacenet_max_retries = 0

RunIdle ==
    /\ RunIdleButOther
    /\ OtherIdle

InitNormalize ==
    /\ nm_s \in NormInputs
    /\ nm_t \in NormInputs
    /\ nm_ns = NoVal /\ nm_nt = NoVal /\ nm_nns = NoVal
    /\ nm_old = NoVal /\ nm_oldold = NoVal
    /\ MatchIdle
    /\ RunIdle

\* ns = to_lower_no_accents_no_hyphens(s)
NormalizeS ==
    /\ nm_ns = NoVal
    /\ nm_ns' = Some(to_lower_no_accents_no_hyphens(nm_s))
    /\ UNCHANGED <<nm_s, nm_t, nm_nt, nm_nns, nm_old, nm_oldold, matchVars, runVars>>

\* nt = to_lower_no_accents_no_hyphens(t)
NormalizeT ==
    /\ nm_nt = NoVal
    /\ nm_nt' = Some(to_lower_no_accents_no_hyphens(nm_t))
    /\ UNCHANGED <<nm_s, nm_t, nm_ns, nm_nns, nm_old, nm_oldold, matchVars, runVars>>

\* nns = to_lower_no_accents_no_hyphens(ns)
NormalizeAgain ==
    /\ IsSome(nm_ns) /\ nm_nns = NoVal
    /\ nm_nns' = Some(to_lower_no_accents_no_hyphens(Val(nm_ns)))
    /\ UNCHANGED <<nm_s, nm_t, nm_ns, nm_nt, nm_old, nm_oldold, matchVars, runVars>>

\* the same two calls on the normalizer of pyrefsearch.py
OldNormalizeS ==
    /\ nm_old = NoVal
    /\ nm_old' = Some(old_to_lower_no_accents_no_hyphens(nm_s))
    /\ UNCHANGED <<nm_s, nm_t, nm_ns, nm_nt, nm_nns, nm_oldold, matchVars, runVars>>

OldNormalizeAgain ==
    /\ IsSome(nm_old) /\ nm_oldold = NoVal
    /\ nm_oldold' = Some(old_to_lower_no_accents_no_hyphens(Val(nm_old)))
    /\ UNCHANGED <<nm_s, nm_t, nm_ns, nm_nt, nm_nns, nm_old, matchVars, runVars>>

NextNormalize ==
    \/ NormalizeS
    \/ NormalizeT
    \/ NormalizeAgain
    \/ OldNormalizeS
    \/ OldNormalizeAgain

SpecNormalize == InitNormalize /\ [][NextNormalize]_vars

-----------------------------------------------------------------------------
(* Harness of the roster matchers: a roster and one record's inventor list   *)
(* are drawn in the initial state; each action computes what one source      *)
(* computes from them.                                                       *)

InitMatch ==
    /\ m_au_names \in AuNamesChoices
    /\ m_inventors \in SeqsUpTo(InventorStrings, MaxInventors)
    /\ m_uspto = NoVal /\ m_espacenet = NoVal /\ m_tabulate = NoVal
    /\ NormIdle
    /\ RunIdle

UsptoLocalInventors ==
    /\ m_uspto = NoVal
    /\ m_uspto' = Some(uspto_local_inventors(m_inventors, m_au_names))
    /\ UNCHANGED <<m_au_names, m_inventors, m_espacenet, m_tabulate, normVars, runVars>>

EspacenetLocalInventors ==
    /\ m_espacenet = NoVal
    /\ m_espacenet' = Some(espacenet_local_inventors(m_inventors, m_au_names))
    /\ UNCHANGED <<m_au_names, m_inventors, m_uspto, m_tabulate, normVars, runVars>>

\* inventor_match evaluated for each [lastname, firstname] of au_names
TabulateInventorMatch ==
    /\ m_tabulate = NoVal
    /\ m_tabulate' = Some([i \in 1..Len(m_au_names) |->
                         inventor_match(m_inventors, m_au_names[i][1], m_au_names[i][2])])
    /\ UNCHANGED <<m_au_names, m_inventors, m_uspto, m_espacenet, normVars, runVars>>

NextMatch ==
    \/ UsptoLocalInventors
    \/ EspacenetLocalInventors
    \/ TabulateInventorMatch

SpecMatch == InitMatch /\ [][NextMatch]_vars

-----------------------------------------------------------------------------
(* DataFrame and str helpers of the query functions *)

Digits == <<"0","1","2","3","4","5","6","7","8","9">>

\* str(n) of a non-negative int
RECURSIVE str(_)
str(n) == IF n < 10 THEN <<Digits[n + 1]>>
          ELSE str(n \div 10) \o <<Digits[(n % 10) + 1]>>

\* sep.join(parts)
RECURSIVE join(_, _)
join(sep, parts) ==
    IF parts = <<>> THEN <<>>
    ELSE IF Len(parts) = 1 THEN parts[1]
    ELSE parts[1] \o sep \o join(sep, Tail(parts))

\* the characters in code point order
AsciiOrder == <<" ", "(", ")", ",", "-", ".">> \o Digits \o <<";">>
                  \o UpperLetters \o <<"[", "]">> \o LowerLetters
                  \o <<"E_ACUTE", "c_cedilla", "e_acute">>

Ord(c) == CHOOSE i \in 1..Len(AsciiOrder) : AsciiOrder[i] = c

\* Python a < b and a <= b on strings
RECURSIVE StrLess(_, _)
StrLess(a, b) ==
    IF b = <<>> THEN FALSE
    ELSE IF a = <<>> THEN TRUE
    ELSE IF Head(a) = Head(b) THEN StrLess(Tail(a), Tail(b))
    ELSE Ord(Head(a)) < Ord(Head(b))

StrLeq(a, b) == a = b \/ StrLess(a, b)

\* the rows of df whose position is in keep, in order
RECURSIVE RowsFrom(_, _, _)
RowsFrom(df, keep, i) ==
    IF i > Len(df) THEN <<>>
    ELSE (IF i \in keep THEN <<df[i]>> ELSE <<>>) \o RowsFrom(df, keep, i + 1)

Rows(df, keep) == RowsFrom(df, keep, 1)

\* DataFrame.sort_values(by=[column]) with the default sort kind (quicksort,
\* not stable): the orders of the rows that are non-decreasing in the column;
\* keyOf[i] is the column's value in row i
SortedOrders(df, keyOf) ==
    {[i \in 1..Len(df) |-> df[p[i]]] :
        p \in {q \in Permutations(1..Len(df)) :
                  \A i, j \in 1..Len(df) : i < j => StrLeq(keyOf[q[i]], keyOf[q[j]])}}

-----------------------------------------------------------------------------
(* The roster (ReferenceQuery.au_names, au_ids, openalex_ids) *)

RosterChoices ==
    {[names |-> << <<Charette, Paul>>, <<Hunter, Ian>> >>,
      ids |-> <<111, 222>>, oa |-> <<"A0000000001", "A0000000002">>],
     [names |-> << <<Charette, Paul>>, <<Charette, Jean>> >>,
      ids |-> <<111, 222>>, oa |-> <<"A0000000001", "A0000000002">>],
     [names |-> << <<Charette, Paul>>, <<Hunter, Ian>> >>,
      ids |-> <<111, 0>>, oa |-> <<"A0000000001", "">>]}

\* a roster for the Scopus run whose first ID is a shorter ID: its digits
\* occur inside the ID of another author
ShortIdRoster ==
    [names |-> << <<Charette, Paul>>, <<Hunter, Ian>> >>,
     ids |-> <<11, 222>>, oa |-> <<"A0000000001", "A0000000002">>]

\* ReferenceQuery.publication_type_codes
publication_type_codes ==
    IF cfg = NoVal THEN <<"ar", "cp">>
    ELSE [k \in 1..Len(cfg.publication_types) |-> cfg.publication_types[k][2]]

-----------------------------------------------------------------------------
(* Scopus publications: search_scopus.py *)

Doe_Jane == <<"D","o","e",","," ","J","a","n","e">>
Charette_Paul == Charette \o <<",", " ">> \o Paul
Hunter_Ian == Hunter \o <<",", " ">> \o Ian

\* rows ScopusSearch can return; author_ids and author_names are
\* ";"-separated strings
ScopusRecords ==
    {[eid |-> "EID1", title |-> <<"A">>, subtype |-> "ar",
      coverDate |-> <<"2","0","2","4","-","0","2">>,
      author_ids |-> join(<<";">>, <<str(111), str(999)>>),
      author_names |-> join(<<";">>, <<Charette_Paul, Doe_Jane>>)],
     [eid |-> "EID1", title |-> <<"A">>, subtype |-> "ar",
      coverDate |-> <<"2","0","2","4","-","0","2">>,
      author_ids |-> join(<<";">>, <<str(111), str(222), str(999)>>),
      author_names |-> join(<<";">>, <<Charette_Paul, Hunter_Ian, Doe_Jane>>)],
     [eid |-> "EID2", title |-> <<"B">>, subtype |-> "cp",
      coverDate |-> <<"2","0","2","4","-","0","1">>,
      author_ids |-> join(<<";">>, <<str(222)>>),
      author_names |-> join(<<";">>, <<Hunter_Ian>>)],
     [eid |-> "EID3", title |-> <<"C">>, subtype |-> "ar",
      coverDate |-> <<>>,
      author_ids |-> join(<<";">>, <<str(998), str(999)>>),
      author_names |-> join(<<";">>, <<Charette_Paul, Doe_Jane>>)]}

\* what one ScopusSearch returns
ScopusResults == UNION {[1..k -> ScopusRecords] : k \in 0..MaxResults}

\* _count_publications_by_type_in_df
count_publications_by_type_in_df(codes, df) ==
    IF df = <<>> THEN [k \in 1..Len(codes) |-> NoVal]
    ELSE [k \in 1..Len(codes) |->
             LET n == Cardinality({i \in 1..Len(df) : df[i].subtype = codes[k]})
             IN  IF n > 0 THEN Some(n) ELSE NoVal]

\* list(row) for row in zip(*pub_type_counts_by_author)
Transpose(counts) ==
    IF counts = <<>> THEN <<>>
    ELSE [k \in 1..Len(counts[1]) |-> [a \in 1..Len(counts) |-> counts[a][k]]]

\* publications_in.drop_duplicates("eid"): the first row of each eid is kept
drop_duplicates_eid(df) ==
    Rows(df, {i \in 1..Len(df) : \A j \in 1..(i - 1) : df[j].eid # df[i].eid})

\* find_local_coauthors: the last names of the roster entries whose id,
\* as a string, occurs in the author_ids string
find_local_coauthors(author_ids, names, ids) ==
    LET hits == Rows(names, {i \in 1..Len(names) :
                                In(str(ids[i]), author_ids) /\ ids[i] > 0})
    IN  [k \in 1..Len(hits) |-> hits[k][1]]

\* the "Nb co-auteurs locaux" column: len(co_authors) if len(co_authors) > 1
\* else None
nb_co_auteurs_locaux_from_one(co_authors) ==
    IF Len(co_authors) >= 1 THEN Some(Len(co_authors)) ELSE NoVal

nb_co_auteurs_locaux(co_authors) ==
    IF Len(co_authors) > 1 THEN Some(Len(co_authors)) ELSE NoVal

\* the author named as probable cause in the warning: the first roster last
\* name that occurs in author_names, "" if none
problem_author(author_names, names) ==
    LET hits == {i \in 1..Len(names) : In(names[i][1], author_names)}
    IN  IF hits = {} THEN <<>>
        ELSE names[CHOOSE i \in hits : \A j \in hits : i <= j][1]

\* _add_coauthor_columns_and_clean_up_publications_df, before the final sort
scopus_add_coauthor_columns(publications_in, names, ids) ==
    LET dedup == drop_duplicates_eid(publications_in)
    IN  [i \in 1..Len(dedup) |->
            LET co == find_local_coauthors(dedup[i].author_ids, names, ids)
            IN  [eid |-> dedup[i].eid, title |-> dedup[i].title,
                 subtype |-> dedup[i].subtype, coverDate |-> dedup[i].coverDate,
                 author_ids |-> dedup[i].author_ids,
                 author_names |-> dedup[i].author_names,
                 auteurs_locaux |-> co,
                 nb_co_auteurs_locaux |-> nb_co_auteurs_locaux(co)]]

\* the warnings it prints: one per row without local author, in row order
scopus_warnings(df, names) ==
    LET bad == Rows(df, {i \in 1..Len(df) : df[i].auteurs_locaux = <<>>})
    IN  [k \in 1..Len(bad) |->
            [title |-> bad[k].title,
             cause |-> problem_author(bad[k].author_names, names)]]

InitScopus ==
    /\ source = "scopus"
    /\ pc = "scopus_loop"
    /\ idx = 1

\* variant: a ScopusSearch request is sent for every roster author, ID or not
ScopusQueryAuthor_queries_every_author ==
    /\ source = "scopus" /\ pc = "scopus_loop" /\ idx <= Len(au_ids)
    /\ \E author_pubs \in ScopusResults :
           /\ pub_type_counts_by_author' =
                  Append(pub_type_counts_by_author,
                         count_publications_by_type_in_df(publication_type_codes,
                                                          author_pubs))
           /\ publications' = publications \o author_pubs
    /\ idx' = idx + 1
    /\ queries' = Append(queries, <<"ScopusSearch", idx>>)
    /\ UNCHANGED <<source, pc, rosterVars, result, pub_type_counts, warnings,
                   usptoVars, espacenetVars, harnessVars, result_again, extractVars,
                   noQueryVars>>

\* one turn of the loop of query_scopus_publications, the search succeeding
ScopusQueryAuthor ==
    /\ source = "scopus" /\ pc = "scopus_loop" /\ idx <= Len(au_ids)
    /\ IF au_ids[idx] > 0
       THEN \E author_pubs \in ScopusResults :
               /\ pub_type_counts_by_author' =
                      Append(pub_type_counts_by_author,
                             count_publications_by_type_in_df(publication_type_codes,
                                                              author_pubs))
               /\ publications' = publications \o author_pubs
       ELSE /\ pub_type_counts_by_author' =
                   Append(pub_type_counts_by_author,
                          [k \in 1..Len(publication_type_codes) |-> NoVal])
            /\ UNCHANGED publications
    /\ idx' = idx + 1
    /\ queries' = IF au_ids[idx] > 0 THEN Append(queries, <<"ScopusSearch", idx>>)
                  ELSE queries
    /\ UNCHANGED <<source, pc, rosterVars, result, pub_type_counts, warnings,
                   usptoVars, espacenetVars, harnessVars, result_again, extractVars, results_summary,
                   cfg, exit_status, report_written, author_profiles>>

\* ScopusSearch raises ScopusException and the loop goes on to the next author
ScopusQueryFails_continues ==
    /\ source = "scopus" /\ pc = "scopus_loop" /\ idx <= Len(au_ids)
    /\ au_ids[idx] > 0
    /\ queries' = Append(queries, <<"ScopusSearch", idx>>)
    /\ errors' = Append(errors, diagnostic("ScopusSearch", <<au_ids[idx]>>))
    /\ pub_type_counts_by_author' =
           Append(pub_type_counts_by_author,
                  [k \in 1..Len(publication_type_codes) |-> NoVal])
    /\ idx' = idx + 1
    /\ UNCHANGED <<source, pc, rosterVars, publications, result, pub_type_counts,
                   warnings, usptoVars, espacenet_max_retries, retries, loopVars,
                   patent_families_raw, patent_families, espacenetOut,
                   harnessVars, result_again, extractVars, results_summary, cfg, exit_status, report_written,
                   author_profiles>>

\* ScopusSearch raises ScopusException: error message, sys.exit()
ScopusQueryFails ==
    /\ source = "scopus" /\ pc = "scopus_loop" /\ idx <= Len(au_ids)
    /\ au_ids[idx] > 0
    /\ queries' = Append(queries, <<"ScopusSearch", idx>>)
    /\ errors' = Append(errors, diagnostic("ScopusSearch", <<au_ids[idx]>>))
    /\ pc' = "exit"
    /\ exit_status' = Some(0)
    /\ UNCHANGED <<source, idx, rosterVars, publications, pub_type_counts_by_author,
                   result, pub_type_counts, warnings, usptoVars, espacenet_max_retries,
                   retries, loopVars, patent_families_raw, patent_families, espacenetOut,
                   harnessVars, result_again, extractVars, results_summary, cfg, report_written, author_profiles>>

\* after the loop: transpose the counts, clean up the publications, return
ScopusReturn ==
    /\ source = "scopus" /\ pc = "scopus_loop" /\ idx > Len(au_ids)
    /\ pub_type_counts' = Transpose(pub_type_counts_by_author)
    /\ IF publications # <<>>
       THEN LET df == scopus_add_coauthor_columns(publications, au_names, au_ids)
            IN  /\ warnings' = warnings \o scopus_warnings(df, au_names)
                /\ result' \in SortedOrders(df, [i \in 1..Len(df) |-> df[i].coverDate])
       ELSE /\ result' = publications
            /\ UNCHANGED warnings
    /\ pc' = "done"
    /\ UNCHANGED <<source, idx, rosterVars, publications, pub_type_counts_by_author,
                   usptoVars, espacenetVars, harnessVars, otherVars>>

\* _add_coauthor_columns_and_clean_up_publications_df applied to the DataFrame
\* it returned
ScopusCleanUpAgain ==
    /\ source = "scopus" /\ pc = "done"
    /\ result # <<>> /\ result_again = NoVal
    /\ LET df == scopus_add_coauthor_columns(result, au_names, au_ids)
       IN  /\ warnings' = warnings \o scopus_warnings(df, au_names)
           /\ \E sorted \in SortedOrders(df, [i \in 1..Len(df) |-> df[i].coverDate]) :
                  result_again' = Some(sorted)
    /\ pc' = "again"
    /\ UNCHANGED <<source, idx, rosterVars, publications, pub_type_counts_by_author,
                   result, pub_type_counts, usptoVars, espacenetVars, harnessVars,
                   mainVars, extractVars>>

-----------------------------------------------------------------------------
(* OpenAlex publications: search_openalex.py *)

Nature == <<"N","a","t","u","r","e">>
HAL == <<"H","A","L">>
Paul_Charette == Paul \o <<" ">> \o Charette
Ian_Hunter == Ian \o <<" ">> \o Hunter
Jane_Doe == <<"J","a","n","e"," ","D","o","e">>

\* what _get_publication_info_from_crossref returns for a DOI (None is NoVal)
CrossrefJournal ==
    [type |-> Some("journal-article"), publication_name |-> Some(Nature),
     authors |-> <<Charette_Paul, Hunter_Ian, Doe_Jane>>]
CrossrefNoName ==
    [type |-> Some("proceedings-article"), publication_name |-> NoVal,
     authors |-> <<Charette_Paul>>]

\* works the OpenAlex API can return for an author; crossref is the answer of
\* the Crossref lookup of the work's DOI
OpenAlexWorks ==
    {[id |-> "W1", title |-> Some(<<"A">>), type |-> Some("article"),
      publication_date |-> <<"2","0","2","4","-","0","2">>,
      source_display_name |-> Some(Nature), raw_source_name |-> NoVal,
      authors |-> <<Paul_Charette, Jane_Doe>>, doi |-> "doi1",
      crossref |-> Some(CrossrefJournal)],
     \* a second OpenAlex record of the same document
     [id |-> "W2", title |-> Some(<<"A">>), type |-> Some("journal-article"),
      publication_date |-> <<"2","0","2","4","-","0","3">>,
      source_display_name |-> NoVal, raw_source_name |-> NoVal,
      authors |-> <<Paul_Charette, Ian_Hunter, Jane_Doe>>, doi |-> "doi1",
      crossref |-> Some(CrossrefJournal)],
     \* a work without title
     [id |-> "W3", title |-> NoVal, type |-> Some("preprint"),
      publication_date |-> <<"2","0","2","4","-","0","1">>,
      source_display_name |-> Some(HAL), raw_source_name |-> Some(HAL),
      authors |-> <<Ian_Hunter>>, doi |-> "None",
      crossref |-> Some(CrossrefNoName)],
     \* no publication name in either record
     [id |-> "W4", title |-> Some(<<"B">>), type |-> Some("dataset"),
      publication_date |-> <<>>,
      source_display_name |-> NoVal, raw_source_name |-> NoVal,
      authors |-> <<Ian_Hunter>>, doi |-> "doi4",
      crossref |-> Some(CrossrefNoName)],
     \* the Crossref lookup finds nothing
     [id |-> "W5", title |-> Some(<<"C">>), type |-> Some("book-chapter"),
      publication_date |-> <<"2","0","2","4","-","0","4">>,
      source_display_name |-> Some(Nature), raw_source_name |-> NoVal,
      authors |-> <<Paul_Charette>>, doi |-> "doi5",
      crossref |-> NoVal]}

\* what one paginated Works() query returns: works without repetition
OpenAlexResults ==
    {ws \in UNION {[1..k -> OpenAlexWorks] : k \in 0..MaxResults} :
        \A i, j \in 1..Len(ws) : i # j => ws[i] # ws[j]}

\* Python "x or y" on values that are None or non-empty
Or(x, y) == IF IsSome(x) THEN x ELSE y

\* _consolidate_subtypes: the dict, "other" (with a warning) for unknown types
KnownSubtypes ==
    {"article", "journal-article", "proceedings-article", "book-chapter",
     "preprint", "posted-content", "journal-preprint", "other"}

SubtypeOf(work_type) ==
    IF work_type \in {"article", "preprint", "posted-content", "journal-preprint"}
    THEN "preprint"
    ELSE work_type

consolidate_subtypes(work_type, publication_name) ==
    IF IsSome(publication_name) /\ In(HAL, Val(publication_name)) THEN "HAL"
    ELSE IF work_type \in KnownSubtypes THEN SubtypeOf(work_type)
    ELSE "other"

consolidate_subtypes_warns(work_type, publication_name) ==
    /\ ~(IsSome(publication_name) /\ In(HAL, Val(publication_name)))
    /\ work_type \notin KnownSubtypes

\* f'=HYPERLINK("{x}")'
HYPERLINK(x) == <<"=HYPERLINK", x>>

\* the fields the loop body reads from the Crossref answer
publication_name_crossref(work) ==
    IF IsSome(work.crossref) THEN Val(work.crossref).publication_name ELSE NoVal

type_crossref(work) ==
    IF IsSome(work.crossref) THEN Val(work.crossref).type ELSE NoVal

\* "if publication_name_openalex is not None or publication_name_crossref is
\* not None": the work is stored
IsStored(work) ==
    IsSome(work.source_display_name) \/ IsSome(publication_name_crossref(work))

\* len(authors_crossref) with authors_crossref = None raises TypeError
RaisesTypeError(work) == IsStored(work) /\ ~IsSome(work.crossref)

\* the row stored for a work fetched for author_name
openalex_row(work, author_name) ==
    LET work_publication_name ==
            Or(publication_name_crossref(work), work.source_display_name)
        work_type ==
            consolidate_subtypes(Val(Or(type_crossref(work), Or(work.type, Some("other")))),
                                 work_publication_name)
        authors_crossref == Val(work.crossref).authors
    IN  [title |-> work.title,
         subtype |-> work_type,
         coverDate |-> work.publication_date,
         Membre3IT |-> author_name[2] \o <<" ">> \o author_name[1],
         author_names |-> IF Len(authors_crossref) > Len(work.authors)
                          THEN authors_crossref ELSE work.authors,
         publicationName |->
             IF work_type = "HAL"
             THEN Some(HAL \o <<" ", "(">>
                           \o (IF IsSome(work.raw_source_name)
                               THEN Val(work.raw_source_name) ELSE HAL)
                           \o <<")">>)
             ELSE work_publication_name,
         doi |-> HYPERLINK(work.doi),
         id |-> HYPERLINK(work.id)]

\* works_df: the rows of the stored works, in the order fetched
openalex_works_df(works, author_name) ==
    LET stored == Rows(works, {i \in 1..Len(works) : IsStored(works[i])})
    IN  [k \in 1..Len(stored) |-> openalex_row(stored[k], author_name)]

\* the unknown-subtype warnings of the stored works
openalex_subtype_warnings(works) ==
    LET unknown == Rows(works, {i \in 1..Len(works) :
                       /\ IsStored(works[i])
                       /\ consolidate_subtypes_warns(
                              Val(Or(type_crossref(works[i]),
                                     Or(works[i].type, Some("other")))),
                              Or(publication_name_crossref(works[i]),
                                 works[i].source_display_name))})
    IN  [k \in 1..Len(unknown) |-> [title |-> unknown[k].title, cause |-> <<>>]]

\* match_criteria_columns = ["title", "subtype", "doi"]
match_criteria(row) == <<row.title, row.subtype, row.doi>>

\* DataFrame.value_counts(match_criteria_columns): rows holding a null in one
\* of the columns are not counted (dropna=True); title is the only column
\* that can be null
value_counts_index(df) ==
    {match_criteria(df[i]) : i \in {j \in 1..Len(df) : IsSome(df[j].title)}}

\* find_duplicate_indices
find_duplicate_indices(df, key) ==
    {i \in 1..Len(df) : match_criteria(df[i]) = key}

\* list_local_authors: Membre3IT of every duplicate, in index order
list_local_authors(df, key) ==
    LET dups == Rows(df, find_duplicate_indices(df, key))
    IN  [k \in 1..Len(dups) |-> dups[k].Membre3IT]

\* count_local_coauthors
count_local_coauthors(auteurs_locaux) ==
    IF Len(auteurs_locaux) > 1 THEN Some(Len(auteurs_locaux)) ELSE NoVal

\* the row built for one key; the other columns come from the first duplicate
openalex_unique_row(df, key) ==
    LET first == df[CHOOSE i \in find_duplicate_indices(df, key) :
                       \A j \in find_duplicate_indices(df, key) : i <= j]
        locaux == list_local_authors(df, key)
    IN  [title |-> key[1], subtype |-> key[2], doi |-> key[3],
         auteurs_locaux |-> locaux,
         collab_interne |-> count_local_coauthors(locaux),
         coverDate |-> first.coverDate, Membre3IT |-> first.Membre3IT,
         author_names |-> first.author_names,
         publicationName |-> first.publicationName, id |-> first.id]

\* all sequences that list every element of the set S once
SeqsOfSet(S) ==
    {f \in [1..Cardinality(S) -> S] : \A i, j \in 1..Cardinality(S) : i # j => f[i] # f[j]}

\* _add_local_author_name_and_count_columns_drop_duplicates followed by
\* sort_values(by=["title"]): the possible results
openalex_unique_sorted(df) ==
    LET rows == {openalex_unique_row(df, key) : key \in value_counts_index(df)}
    IN  {f \in SeqsOfSet(rows) :
            \A i, j \in 1..Len(f) : i < j => StrLeq(Val(f[i].title), Val(f[j].title))}

openalex_type_codes == <<"journal-article", "preprint">>

InitOpenAlex ==
    /\ source = "openalex"
    /\ pc = "openalex_loop"
    /\ idx = 1

\* variant: an author without OpenAlex ID is skipped, no entry is appended
OpenAlexQueryAuthor_no_entry_without_id ==
    /\ source = "openalex" /\ pc = "openalex_loop" /\ idx <= Len(au_names)
    /\ IF openalex_ids[idx] # ""
       THEN \E works \in OpenAlexResults :
               /\ \A i \in 1..Len(works) : ~RaisesTypeError(works[i])
               /\ LET works_df == openalex_works_df(works, au_names[idx])
                  IN  /\ publications' = publications \o works_df
                      /\ pub_type_counts_by_author' =
                             Append(pub_type_counts_by_author,
                                    count_publications_by_type_in_df(
                                        openalex_type_codes, works_df))
               /\ warnings' = warnings \o openalex_subtype_warnings(works)
       ELSE UNCHANGED <<pub_type_counts_by_author, publications, warnings>>
    /\ idx' = idx + 1
    /\ queries' = IF openalex_ids[idx] # "" THEN Append(queries, <<"Works", idx>>)
                  ELSE queries
    /\ UNCHANGED <<source, pc, rosterVars, result, pub_type_counts, usptoVars,
                   espacenetVars, harnessVars, result_again, extractVars,
                   noQueryVars>>

\* one turn of the loop of query_publications_openalex over the authors
OpenAlexQueryAuthor ==
    /\ source = "openalex" /\ pc = "openalex_loop" /\ idx <= Len(au_names)
    /\ IF openalex_ids[idx] # ""
       THEN \E works \in OpenAlexResults :
               /\ \A i \in 1..Len(works) : ~RaisesTypeError(works[i])
               /\ LET works_df == openalex_works_df(works, au_names[idx])
                  IN  /\ publications' = publications \o works_df
                      /\ pub_type_counts_by_author' =
                             Append(pub_type_counts_by_author,
                                    count_publications_by_type_in_df(
                                        openalex_type_codes, works_df))
               /\ warnings' = warnings \o openalex_subtype_warnings(works)
       ELSE /\ pub_type_counts_by_author' =
                   Append(pub_type_counts_by_author,
                          count_publications_by_type_in_df(openalex_type_codes, <<>>))
            /\ UNCHANGED <<publications, warnings>>
    /\ idx' = idx + 1
    /\ queries' = IF openalex_ids[idx] # "" THEN Append(queries, <<"Works", idx>>)
                  ELSE queries
    /\ UNCHANGED <<source, pc, rosterVars, result, pub_type_counts, usptoVars,
                   espacenetVars, harnessVars, result_again, extractVars,
                   noQueryVars>>

\* a fetched work raises TypeError in the loop body: the run dies
OpenAlexQueryRaises ==
    /\ source = "openalex" /\ pc = "openalex_loop" /\ idx <= Len(au_names)
    /\ openalex_ids[idx] # ""
    /\ \E works \in OpenAlexResults : \E i \in 1..Len(works) : RaisesTypeError(works[i])
    /\ pc' = "raised"
    /\ queries' = Append(queries, <<"Works", idx>>)
    /\ UNCHANGED <<source, idx, rosterVars, publications, pub_type_counts_by_author,
                   result, pub_type_counts, warnings, usptoVars, espacenetVars, harnessVars, result_again, extractVars,
                   noQueryVars>>

\* after the loop: remove the duplicates, sort by title, transpose the counts
OpenAlexReturn ==
    /\ source = "openalex" /\ pc = "openalex_loop" /\ idx > Len(au_names)
    /\ IF publications = <<>>
       THEN result' = publications
       ELSE /\ value_counts_index(publications) # {}
            /\ result' \in openalex_unique_sorted(publications)
    /\ pub_type_counts' = Transpose(pub_type_counts_by_author)
    /\ pc' = "done"
    /\ UNCHANGED <<source, idx, rosterVars, publications, pub_type_counts_by_author,
                   warnings, usptoVars, espacenetVars, harnessVars, otherVars>>

\* the row built for one key when the input already has the columns "Auteurs
\* locaux" and "Collab interne": the two columns are computed from Membre3IT,
\* then the loop over columns_missing overwrites them, as every column that is
\* not a match criterion, with the values of the first duplicate
openalex_unique_row_recomputed(df, key) ==
    LET first == df[CHOOSE i \in find_duplicate_indices(df, key) :
                       \A j \in find_duplicate_indices(df, key) : i <= j]
        locaux == list_local_authors(df, key)
    IN  [title |-> key[1], subtype |-> key[2], doi |-> key[3],
         auteurs_locaux |-> locaux,
         collab_interne |-> count_local_coauthors(locaux),
         coverDate |-> first.coverDate, Membre3IT |-> first.Membre3IT,
         author_names |-> first.author_names,
         publicationName |-> first.publicationName, id |-> first.id]

openalex_unique_row_again(df, key) ==
    LET first == df[CHOOSE i \in find_duplicate_indices(df, key) :
                       \A j \in find_duplicate_indices(df, key) : i <= j]
        locaux == list_local_authors(df, key)
        computed == [title |-> key[1], subtype |-> key[2], doi |-> key[3],
                     auteurs_locaux |-> locaux,
                     collab_interne |-> count_local_coauthors(locaux)]
    IN  [title |-> computed.title, subtype |-> computed.subtype, doi |-> computed.doi,
         auteurs_locaux |-> first.auteurs_locaux,
         collab_interne |-> first.collab_interne,
         coverDate |-> first.coverDate, Membre3IT |-> first.Membre3IT,
         author_names |-> first.author_names,
         publicationName |-> first.publicationName, id |-> first.id]

\* _add_local_author_name_and_count_columns_drop_duplicates applied to the
\* DataFrame it returned, followed by sort_values(by=["title"])
OpenAlexCleanUpAgain ==
    /\ source = "openalex" /\ pc = "done"
    /\ result # <<>> /\ result_again = NoVal
    /\ LET rows == {openalex_unique_row_again(result, key) :
                       key \in value_counts_index(result)}
       IN  \E f \in SeqsOfSet(rows) :
              /\ \A i, j \in 1..Len(f) :
                     i < j => StrLeq(Val(f[i].title), Val(f[j].title))
              /\ result_again' = Some(f)
    /\ pc' = "again"
    /\ UNCHANGED <<source, idx, rosterVars, pubVars, usptoVars, espacenetVars,
                   harnessVars,
                   mainVars, extractVars>>

\* every stored row has a null title: value_counts() is empty, the DataFrame
\* built from its index has no column, and the assignment of the three column
\* names raises ValueError
OpenAlexReturnRaises ==
    /\ source = "openalex" /\ pc = "openalex_loop" /\ idx > Len(au_names)
    /\ publications # <<>>
    /\ value_counts_index(publications) = {}
    /\ pc' = "raised"
    /\ UNCHANGED <<source, idx, rosterVars, publications, pub_type_counts_by_author,
                   result, pub_type_counts, warnings, usptoVars, espacenetVars,
                   harnessVars, otherVars>>

-----------------------------------------------------------------------------
(* USPTO patents and applications: search_uspto.py, utils.py *)

Charette_Paul_G == Charette \o <<" ">> \o Paul \o <<" ", "G", ".">>
Hunter_Ian_W == Hunter \o <<" ">> \o Ian \o <<" ", "W", ".">>
Doe_Jane_US == <<"D","o","e"," ","J","a","n","e">>
CA == <<"C","A">>
US == <<"U","S">>

\* rows the USPTO full-text search can return; an inventor is a name and a
\* country code
UsptoRecords ==
    {[appl_id |-> 1001, patent_title |-> <<"X">>,
      inventors |-> <<[name |-> Charette_Paul_G, country |-> CA],
                      [name |-> Doe_Jane_US, country |-> US]>>],
     [appl_id |-> 1002, patent_title |-> <<"Y">>,
      inventors |-> <<[name |-> Charette_Paul_G, country |-> CA],
                      [name |-> Hunter_Ian_W, country |-> US]>>],
     \* a local inventor, but no inventor tagged (CA)
     [appl_id |-> 1003, patent_title |-> <<"X">>,
      inventors |-> <<[name |-> Hunter_Ian_W, country |-> US],
                      [name |-> Doe_Jane_US, country |-> US]>>],
     \* a Canadian inventor who is not on the roster
     [appl_id |-> 1004, patent_title |-> <<"W">>,
      inventors |-> <<[name |-> Doe_Jane_US, country |-> CA]>>]}

\* what one search returns: at most MaxResults distinct rows
UsptoResults ==
    {rs \in UNION {[1..k -> UsptoRecords] : k \in 0..MaxResults} :
        \A i, j \in 1..Len(rs) : i # j => rs[i] # rs[j]}

\* f"{inventor[0][1]} ({inventor[2][1]})"
simplify_inventors(inventors) ==
    [k \in 1..Len(inventors) |->
        inventors[k].name \o <<" ", "(">> \o inventors[k].country \o <<")">>]

\* all("(CA)" not in inventor for inventor in inventors)
no_canadian_inventors(inventors) ==
    \A k \in 1..Len(inventors) : ~In(<<"(", "C", "A", ")">>, inventors[k])

\* the "Nb co-inventors" lambda
nb_co_inventors(local_inventors) ==
    IF Len(local_inventors) > 1 THEN Some(Len(local_inventors)) ELSE NoVal

\* utils.py: tabulate_patents_per_author over the "Inventeurs" column
tabulate_patents_per_author(names, ids, patents) ==
    IF patents = <<>> THEN [a \in 1..Len(ids) |-> NoVal]
    ELSE [a \in 1..Len(names) |->
             LET count == Cardinality({i \in 1..Len(patents) :
                              inventor_match(patents[i].inventeurs,
                                             names[a][1], names[a][2])})
             IN  IF count > 0 THEN Some(count) ELSE NoVal]

\* query_uspto_patents_and_applications, from the search result to the rows
\* left after the removal of the rows without Canadian or local inventor
uspto_local_rows(patents, names) ==
    LET simplified ==
            [i \in 1..Len(patents) |->
                [appl_id |-> patents[i].appl_id, titre |-> patents[i].patent_title,
                 inventeurs |-> simplify_inventors(patents[i].inventors)]]
        canadian == Rows(simplified, {i \in 1..Len(simplified) :
                            ~no_canadian_inventors(simplified[i].inventeurs)})
        with_local ==
            [i \in 1..Len(canadian) |->
                LET local == uspto_local_inventors(canadian[i].inventeurs, names)
                IN  [appl_id |-> canadian[i].appl_id, titre |-> canadian[i].titre,
                     inventeurs |-> canadian[i].inventeurs,
                     inventeurs_locaux |-> local,
                     nb_co_inventeurs_locaux |-> nb_co_inventors(local)]]
    IN  Rows(with_local, {i \in 1..Len(with_local) :
                             with_local[i].inventeurs_locaux # <<>>})

\* application_ids = patents["appl_id"].to_list()
appl_id_list(patents) == [i \in 1..Len(patents) |-> patents[i].appl_id]

\* variant: the mask is computed and no row is dropped
remove_delivered_drops_nothing(patents, applications, application_ids_to_remove) ==
    patents

\* the removal of the applications whose appl_id is in application_ids_to_remove
remove_delivered(patents, applications, application_ids_to_remove) ==
    IF applications /\ application_ids_to_remove # <<>>
    THEN Rows(patents, {i \in 1..Len(patents) :
                 \A k \in 1..Len(application_ids_to_remove) :
                     application_ids_to_remove[k] # patents[i].appl_id})
    ELSE patents

InitUspto ==
    /\ source = "uspto"
    /\ pc = "uspto_patents"
    /\ idx = 0

\* query_uspto_patents_and_applications(applications=False)
UsptoQueryPatents ==
    /\ source = "uspto" /\ pc = "uspto_patents"
    /\ \E patents \in UsptoResults :
          /\ uspto_raw_patents' = patents
          /\ IF patents # <<>>
             THEN LET local == uspto_local_rows(patents, au_names)
                      kept == remove_delivered(local, FALSE, <<>>)
                  IN  /\ uspto_patent_application_ids' = appl_id_list(local)
                      /\ \E sorted \in SortedOrders(kept,
                                           [i \in 1..Len(kept) |-> kept[i].titre]) :
                            /\ uspto_patents' = sorted
                            /\ uspto_patent_counts_by_author' =
                                   tabulate_patents_per_author(au_names, au_ids, sorted)
             ELSE /\ uspto_patents' = patents
                  /\ uspto_patent_application_ids' = <<>>
                  /\ uspto_patent_counts_by_author' = [a \in 1..Len(au_ids) |-> NoVal]
    /\ pc' = "uspto_applications"
    /\ queries' = Append(queries, <<"Patent", 0>>)
    /\ UNCHANGED <<source, idx, rosterVars, pubVars, uspto_raw_applications,
                   uspto_patent_applications,
                   uspto_patent_application_counts_by_author, espacenetVars,
                   harnessVars, result_again, extractVars,
                   noQueryVars>>

\* query_uspto_patents_and_applications(applications=True,
\*     application_ids_to_remove=uspto_patent_application_ids)
UsptoQueryApplications ==
    /\ source = "uspto" /\ pc = "uspto_applications"
    /\ \E patents \in UsptoResults :
          /\ uspto_raw_applications' = patents
          /\ IF patents # <<>>
             THEN LET local == uspto_local_rows(patents, au_names)
                      kept == remove_delivered(local, TRUE, uspto_patent_application_ids)
                  IN  \E sorted \in SortedOrders(kept,
                                        [i \in 1..Len(kept) |-> kept[i].titre]) :
                         /\ uspto_patent_applications' = sorted
                         /\ uspto_patent_application_counts_by_author' =
                                tabulate_patents_per_author(au_names, au_ids, sorted)
             ELSE /\ uspto_patent_applications' = patents
                  /\ uspto_patent_application_counts_by_author' =
                         [a \in 1..Len(au_ids) |-> NoVal]
    /\ pc' = "done"
    /\ queries' = Append(queries, <<"PublishedApplication", 0>>)
    /\ UNCHANGED <<source, idx, rosterVars, pubVars, uspto_raw_patents, uspto_patents,
                   uspto_patent_application_ids, uspto_patent_counts_by_author,
                   espacenetVars, harnessVars, result_again, extractVars,
                   noQueryVars>>

-----------------------------------------------------------------------------
(* espacenet patent families: search_espacenet.py *)

D2023 == <<"2","0","2","3","-","0","6","-","1","5">>
D2024a == <<"2","0","2","4","-","0","3","-","0","1">>
D2024b == <<"2","0","2","4","-","0","9","-","3","0">>
D2025 == <<"2","0","2","5","-","0","1","-","2","0">>

CHARETTE_PAUL_epodoc == <<"C","H","A","R","E","T","T","E"," ","P","A","U","L"," ","[","C","A","]">>
CHARETTE_JEAN_epodoc == <<"C","H","A","R","E","T","T","E"," ","J","E","A","N"," ","[","C","A","]">>
HUNTER_IAN_epodoc == <<"H","U","N","T","E","R"," ","I","A","N"," ","[","U","S","]">>
DOE_JANE_CA_epodoc == <<"D","O","E"," ","J","A","N","E"," ","[","C","A","]">>
CHARETTE_Paul_original == <<"C","H","A","R","E","T","T","E",","," ","P","a","u","l">>
CHARETTE_Jean_original == <<"C","H","A","R","E","T","T","E",","," ","J","e","a","n">>
HUNTER_Ian_original == <<"H","U","N","T","E","R",","," ","I","a","n">>
DOE_Jane_original == <<"D","O","E",","," ","J","a","n","e">>

\* the documents of the espacenet database: what the family search lists
\* (family_id, patent_id) and what Inpadoc.objects.get(patent_id) returns
EspacenetPatents ==
    <<[patent_id |-> <<"U","S","1","A","1">>, family_id |-> 501,
       title |-> <<"X">>,
       inventors_epodoc |-> <<CHARETTE_PAUL_epodoc, HUNTER_IAN_epodoc>>,
       inventors_original |-> <<CHARETTE_Paul_original, HUNTER_Ian_original>>,
       application_number |-> <<"U","S","1","A","1">>, date |-> D2024a,
       family |-> <<[publication_number |-> <<"U","S","1","B","2">>, date |-> D2024b],
                    [publication_number |-> <<"W","O","1","A","1">>, date |-> D2024a],
                    [publication_number |-> <<"E","P","1","A","1">>, date |-> D2023]>>],
      \* a second document of family 501
      [patent_id |-> <<"U","S","1","B","2">>, family_id |-> 501,
       title |-> <<"X">>,
       inventors_epodoc |-> <<CHARETTE_PAUL_epodoc, HUNTER_IAN_epodoc>>,
       inventors_original |-> <<CHARETTE_Paul_original, HUNTER_Ian_original>>,
       application_number |-> <<"U","S","1","B","2">>, date |-> D2024b,
       family |-> <<[publication_number |-> <<"U","S","1","A","1">>, date |-> D2024a],
                    [publication_number |-> <<"W","O","1","A","1">>, date |-> D2024a],
                    [publication_number |-> <<"C","A","1","C">>, date |-> D2024a]>>],
      \* an inventor with the last name of a roster author and another first name
      [patent_id |-> <<"C","A","2","A","1">>, family_id |-> 502,
       title |-> <<"W">>,
       inventors_epodoc |-> <<CHARETTE_JEAN_epodoc>>,
       inventors_original |-> <<CHARETTE_Jean_original>>,
       application_number |-> <<"C","A","2","A","1">>, date |-> D2024a,
       family |-> <<[publication_number |-> <<"C","A","2","C">>, date |-> D2025]>>],
      \* a roster author, no inventor tagged [CA]
      [patent_id |-> <<"U","S","3","A","1">>, family_id |-> 503,
       title |-> <<"Y">>,
       inventors_epodoc |-> <<HUNTER_IAN_epodoc>>,
       inventors_original |-> <<HUNTER_Ian_original>>,
       application_number |-> <<"U","S","3","A","1">>, date |-> D2024a,
       family |-> <<>>],
      \* a Canadian inventor who is not on the roster
      [patent_id |-> <<"C","A","4","A","1">>, family_id |-> 504,
       title |-> <<"X">>,
       inventors_epodoc |-> <<DOE_JANE_CA_epodoc>>,
       inventors_original |-> <<DOE_Jane_original>>,
       application_number |-> <<"C","A","4","A","1">>, date |-> D2024b,
       family |-> <<>>],
      \* no title
      [patent_id |-> <<"C","A","5","B","1">>, family_id |-> 505,
       title |-> <<>>,
       inventors_epodoc |-> <<CHARETTE_PAUL_epodoc>>,
       inventors_original |-> <<CHARETTE_Paul_original>>,
       application_number |-> <<"C","A","5","B","1">>, date |-> D2024a,
       family |-> <<>>]>>

\* Inpadoc.objects.get(patent_id)
PatentInfo(patent_id) ==
    EspacenetPatents[CHOOSE i \in 1..Len(EspacenetPatents) :
                         EspacenetPatents[i].patent_id = patent_id]

\* what one inventor search returns: at most MaxFamilies documents, in the
\* order of the database; the rows hold family_id and patent_id
EspacenetResults ==
    {[k \in 1..Len(rs) |-> [family_id |-> rs[k].family_id, patent_id |-> rs[k].patent_id]] :
        rs \in {Rows(EspacenetPatents, S) :
                   S \in {T \in SUBSET (1..Len(EspacenetPatents)) :
                             Cardinality(T) <= MaxFamilies}}}

\* drop_duplicates(subset=["family_id"]): the first row of each family is kept
drop_duplicates_family_id(df) ==
    Rows(df, {i \in 1..Len(df) : \A j \in 1..(i - 1) : df[j].family_id # df[i].family_id})

\* pid[:2] and pid[-2:]
FirstTwo(pid) == SubSeq(pid, 1, IF Len(pid) < 2 THEN Len(pid) ELSE 2)
LastTwo(pid) == SubSeq(pid, IF Len(pid) < 2 THEN 1 ELSE Len(pid) - 1, Len(pid))

\* _extract_patent_family_members: the US, CA and WO members, the root first
extract_patent_family_members(root_member_info) ==
    LET members ==
            <<[pid |-> root_member_info.application_number,
               date |-> root_member_info.date]>>
              \o [k \in 1..Len(root_member_info.family) |->
                     [pid |-> root_member_info.family[k].publication_number,
                      date |-> root_member_info.family[k].date]]
    IN  Rows(members, {i \in 1..Len(members) :
                          FirstTwo(members[i].pid) \in {US, CA, <<"W","O">>}})

\* variant: only the kind codes with a B count as granted
IsGranted_B_only(pid) == In(<<"B">>, LastTwo(pid))

\* "B" in pid[-2:] or "C" in pid[-2:]
IsGranted(pid) == In(<<"B">>, LastTwo(pid)) \/ In(<<"C">>, LastTwo(pid))

\* _extract_earliest_espacenet_patent_family_members, for one row: the state
\* of the four loop variables after the first n members
RECURSIVE earliest_members(_, _)
earliest_members(members, n) ==
    IF n = 0
    THEN [application_date |-> <<>>, application_number |-> <<>>,
          granting_date |-> <<>>, granting_number |-> <<>>]
    ELSE LET e == earliest_members(members, n - 1)
             date == members[n].date
             pid == members[n].pid
         IN  IF IsGranted(pid)
             THEN IF e.granting_date = <<>> \/ StrLess(date, e.granting_date)
                  THEN [e EXCEPT !.granting_date = date, !.granting_number = pid]
                  ELSE e
             ELSE IF \/ e.application_date = <<>>
                     \/ StrLess(date, e.application_date)
                     \/ (date = e.application_date /\ FirstTwo(pid) = <<"W","O">>)
                  THEN [e EXCEPT !.application_date = date, !.application_number = pid]
                  ELSE e

\* the row stored for a family that has a Canadian inventor and a title
espacenet_family_row(patent_info) ==
    LET members == extract_patent_family_members(patent_info)
        e == earliest_members(members, Len(members))
    IN  [famille |-> patent_info.family_id, titre |-> patent_info.title,
         inventeurs |-> patent_info.inventors_original,
         members |-> members,
         premier_depot |-> e.application_number, date_de_depot |-> e.application_date,
         premier_brevet_delivre |-> e.granting_number,
         date_de_delivrance |-> e.granting_date]

\* any("[CA]" in s for s in patent_info.inventors_epodoc) and patent_info.title
has_canadian_inventor_and_title(patent_info) ==
    /\ \E k \in 1..Len(patent_info.inventors_epodoc) :
           In(<<"[", "C", "A", "]">>, patent_info.inventors_epodoc[k])
    /\ patent_info.title # <<>>

\* the "Nb co-inventeurs locaux" lambda
espacenet_local_inventors_cnt(inventors) ==
    IF Len(inventors) > 1 THEN Some(Len(inventors)) ELSE NoVal

\* query_espacenet_patents_and_applications: the local inventor columns, then
\* the removal of the families without local inventor
espacenet_local_rows(families, names) ==
    LET with_local ==
            [i \in 1..Len(families) |->
                LET local == espacenet_local_inventors(families[i].inventeurs, names)
                IN  [famille |-> families[i].famille, titre |-> families[i].titre,
                     inventeurs_locaux |-> local,
                     nb_co_inventeurs_locaux |-> espacenet_local_inventors_cnt(local),
                     inventeurs |-> families[i].inventeurs,
                     members |-> families[i].members,
                     premier_depot |-> families[i].premier_depot,
                     date_de_depot |-> families[i].date_de_depot,
                     premier_brevet_delivre |-> families[i].premier_brevet_delivre,
                     date_de_delivrance |-> families[i].date_de_delivrance]]
    IN  Rows(with_local, {i \in 1..Len(with_local) :
                             Len(with_local[i].inventeurs_locaux) # 0})

\* ReferenceQuery.pub_year_first, pub_year_last
pub_year_first == 2024
pub_year_last == 2024

\* date >= f"{pub_year_first}-01-01" and date <= f"{pub_year_last}-12-31"
in_year_range(date) ==
    /\ StrLeq(str(pub_year_first) \o <<"-","0","1","-","0","1">>, date)
    /\ StrLeq(date, str(pub_year_last) \o <<"-","1","2","-","3","1">>)

\* "retries = 0; success = False" on entering a retry loop: the counters of a
\* loop that has ended with a success start again with the next loop
loop_retries == IF success THEN 0 ELSE retries

loop_calls == IF success THEN 0 ELSE nb_calls

loop_sleeps == IF success THEN 0 ELSE nb_sleeps

InitEspacenet ==
    /\ source = "espacenet"
    /\ pc = "espacenet_search"
    /\ idx = 1

\* _fetch_espacenet_patent_families_by_author_name for author idx, the search
\* succeeding on this attempt; the author's rows join patent_families_raw
EspacenetSearchSucceeds ==
    /\ source = "espacenet" /\ pc = "espacenet_search" /\ idx <= Len(au_names)
    /\ loop_retries < espacenet_max_retries
    /\ \E patents \in EspacenetResults :
          patent_families_raw' = patent_families_raw \o drop_duplicates_family_id(patents)
    /\ retries' = loop_retries
    /\ success' = TRUE
    /\ nb_calls' = loop_calls + 1
    /\ nb_sleeps' = loop_sleeps
    /\ idx' = idx + 1
    /\ queries' = Append(queries, <<"Inpadoc", idx>>)
    /\ UNCHANGED <<source, pc, rosterVars, espacenet_max_retries, errors,
                   patent_families, espacenetOut, pubVars, usptoVars, harnessVars, result_again, extractVars,
                   noQueryVars>>

\* variant: time.sleep(0.1) comes before the test of the cap
EspacenetSearchFails_sleeps_before_exit ==
    /\ source = "espacenet" /\ pc = "espacenet_search" /\ idx <= Len(au_names)
    /\ loop_retries < espacenet_max_retries
    /\ retries' = loop_retries + 1
    /\ success' = FALSE
    /\ nb_calls' = loop_calls + 1
    /\ nb_sleeps' = loop_sleeps + 1
    /\ IF loop_retries + 1 = espacenet_max_retries
       THEN /\ errors' = Append(errors, [what |-> "espacenet_search",
                                        author |-> au_names[idx],
                                        cause |-> "limite du nombre d'acces",
                                        essais |-> loop_retries + 1])
            /\ pc' = "exit"
            /\ exit_status' = Some(0)
       ELSE UNCHANGED <<errors, pc, exit_status>>
    /\ queries' = Append(queries, <<"Inpadoc", idx>>)
    /\ UNCHANGED <<source, idx, rosterVars, espacenet_max_retries,
                   patent_families_raw, patent_families, espacenetOut, pubVars,
                   usptoVars, harnessVars, result_again, extractVars, results_summary,
                   cfg, report_written, author_profiles>>

\* the search raises: retries += 1, then exit() at the cap; below it the
\* loop sleeps 0.1 s and tries again
EspacenetSearchFails ==
    /\ source = "espacenet" /\ pc = "espacenet_search" /\ idx <= Len(au_names)
    /\ loop_retries < espacenet_max_retries
    /\ retries' = loop_retries + 1
    /\ success' = FALSE
    /\ nb_calls' = loop_calls + 1
    /\ nb_sleeps' = IF loop_retries + 1 = espacenet_max_retries THEN loop_sleeps
                    ELSE loop_sleeps + 1
    /\ IF loop_retries + 1 = espacenet_max_retries
       THEN /\ errors' = Append(errors, [what |-> "espacenet_search",
                                        author |-> au_names[idx],
                                        cause |-> "limite du nombre d'acces",
                                        essais |-> loop_retries + 1])
            /\ pc' = "exit"
            /\ exit_status' = Some(0)
       ELSE UNCHANGED <<errors, pc, exit_status>>
    /\ queries' = Append(queries, <<"Inpadoc", idx>>)
    /\ UNCHANGED <<source, idx, rosterVars, espacenet_max_retries,
                   patent_families_raw, patent_families, espacenetOut, pubVars,
                   usptoVars, harnessVars, result_again, extractVars, results_summary,
                   cfg, report_written, author_profiles>>

\* the while loop is not entered (espacenet_max_retries = 0): patents stays
\* the empty DataFrame and the function returns no row for the author
EspacenetSearchNotAttempted ==
    /\ source = "espacenet" /\ pc = "espacenet_search" /\ idx <= Len(au_names)
    /\ ~(0 < espacenet_max_retries)
    /\ retries' = 0
    /\ success' = FALSE
    /\ nb_calls' = 0
    /\ nb_sleeps' = 0
    /\ idx' = idx + 1
    /\ UNCHANGED <<source, pc, rosterVars, espacenet_max_retries, errors, patent_families_raw, patent_families, espacenetOut,
                   pubVars, usptoVars, harnessVars, otherVars>>

\* after the loop over the authors: drop_duplicates(subset=["family_id"]),
\* reset_index
EspacenetDropDuplicates ==
    /\ source = "espacenet" /\ pc = "espacenet_search" /\ idx > Len(au_names)
    /\ patent_families_raw' = drop_duplicates_family_id(patent_families_raw)
    /\ pc' = "espacenet_families"
    /\ idx' = 1
    /\ UNCHANGED <<source, rosterVars, espacenet_max_retries, retries, loopVars, errors,
                   patent_families, espacenetOut, pubVars, usptoVars,
                   harnessVars, otherVars>>

\* one turn of the loop over the families, Inpadoc.objects.get succeeding on
\* this attempt: the family is stored if it has a Canadian inventor and a title
EspacenetGetSucceeds ==
    /\ source = "espacenet" /\ pc = "espacenet_families"
    /\ idx <= Len(patent_families_raw)
    /\ loop_retries < espacenet_max_retries
    /\ LET patent_info == PatentInfo(patent_families_raw[idx].patent_id)
       IN  patent_families' =
               IF has_canadian_inventor_and_title(patent_info)
               THEN Append(patent_families, espacenet_family_row(patent_info))
               ELSE patent_families
    /\ retries' = loop_retries
    /\ success' = TRUE
    /\ nb_calls' = loop_calls + 1
    /\ nb_sleeps' = loop_sleeps
    /\ idx' = idx + 1
    /\ UNCHANGED <<source, pc, rosterVars, espacenet_max_retries, errors,
                   patent_families_raw, espacenetOut, pubVars, usptoVars, harnessVars, otherVars>>

\* Inpadoc.objects.get raises: retries += 1, exit() at the cap; below it the
\* loop sleeps 0.1 s and tries again
EspacenetGetFails ==
    /\ source = "espacenet" /\ pc = "espacenet_families"
    /\ idx <= Len(patent_families_raw)
    /\ loop_retries < espacenet_max_retries
    /\ retries' = loop_retries + 1
    /\ success' = FALSE
    /\ nb_calls' = loop_calls + 1
    /\ nb_sleeps' = IF loop_retries + 1 = espacenet_max_retries THEN loop_sleeps
                    ELSE loop_sleeps + 1
    /\ IF loop_retries + 1 = espacenet_max_retries
       THEN /\ errors' = Append(errors, [what |-> "espacenet_get", author |-> <<>>,
                                        cause |-> "limite du nombre d'acces",
                                        essais |-> loop_retries + 1])
            /\ pc' = "exit"
            /\ exit_status' = Some(0)
       ELSE UNCHANGED <<errors, pc, exit_status>>
    /\ UNCHANGED <<source, idx, rosterVars, espacenet_max_retries,
                   patent_families_raw, patent_families, espacenetOut, pubVars,
                   usptoVars, harnessVars, result_again, extractVars, results_summary,
                   cfg, queries, report_written, author_profiles>>

\* after the loop over the families: the families sorted by title, the local
\* inventor columns, the two year-range extracts and their tabulations
EspacenetReturn ==
    /\ source = "espacenet" /\ pc = "espacenet_families"
    /\ idx > Len(patent_families_raw)
    /\ \E sorted \in SortedOrders(patent_families,
                         [i \in 1..Len(patent_families) |-> patent_families[i].titre]) :
          LET local == espacenet_local_rows(sorted, au_names)
              applications == Rows(local, {i \in 1..Len(local) :
                                      in_year_range(local[i].date_de_depot)})
              granted == Rows(local, {i \in 1..Len(local) :
                                 in_year_range(local[i].date_de_delivrance)})
          IN  /\ patent_families' = sorted
              /\ espacenet_applications' = applications
              /\ espacenet_patents' = granted
              /\ espacenet_application_counts_by_author' =
                     tabulate_patents_per_author(au_names, au_ids, applications)
              /\ espacenet_patent_counts_by_author' =
                     tabulate_patents_per_author(au_names, au_ids, granted)
    /\ pc' = "done"
    /\ UNCHANGED <<source, idx, rosterVars, espacenet_max_retries, retries, loopVars,
                   errors, patent_families_raw, pubVars, usptoVars,
                   harnessVars, otherVars>>

-----------------------------------------------------------------------------
(* ReferenceQuery.__init__ (referencequery.py): the configuration, the Excel *)
(* files and the roster sheet                                                *)

\* an empty cell of the sheet as pandas reads it
NaN == <<"NaN">>
\* str(s).strip() of a cell
str_strip(cell) == IF cell = NaN THEN <<"n","a","n">> ELSE strip(cell)

Col_Nom == <<"N","o","m">>
Col_Prenom == <<"P","r","e_acute","n","o","m">>
Col_ID_Scopus == <<"I","D"," ","S","c","o","p","u","s">>
Col_OpenAlex == <<"O","p","e","n","A","l","e","x">>
Col_ORCID == <<"O","R","C","I","D">>
Col_Faculte == <<"F","a","c","u","l","t","e_acute"," ","/"," ","S","e","r","v","i","c","e">>
Col_Lien == <<"L","i","e","n"," ","d","'","e","m","p","l","o","i"," ","U","d","e","S">>
Col_Departement == <<"D","e_acute","p","a","r","t","e","m","e","n","t">>
Col_Residence == <<"R","e_acute","s","i","d","e","n","c","e">>
Col_Sexe == <<"S","e","x","e">>
Regulier == <<"R","e_acute","g","u","l","i","e","r">>
Collaborateur == <<"C","o","l","l","a","b","o","r","a","t","e","u","r">>
openalex_org == <<"h","t","t","p","s",":","/","/","o","p","e","n","a","l","e","x",".","o","r","g","/">>
orcid_org == <<"h","t","t","p","s",":","/","/","o","r","c","i","d",".","o","r","g","/">>

\* the columns selected from a sheet tabulated by fiscal year
MemberColumns == <<Col_Nom, Col_Prenom, Col_ID_Scopus, Col_OpenAlex, Col_ORCID,
                   Col_Faculte, Col_Lien, Col_Departement, Col_Residence, Col_Sexe>>
\* the columns selected from a simple list of names
ListColumns == <<Col_Nom, Col_Prenom, Col_ID_Scopus>>

Range(seq) == {seq[i] : i \in 1..Len(seq)}
IsDigit(c) == \E i \in 1..Len(Digits) : Digits[i] = c

\* f"{year}-{year + 1}"
year_column(year) == str(year) \o <<"-">> \o str(year + 1)

\* [f"{year}-{year + 1}" for year in range(pub_year_first, pub_year_last + 1)]
author_status_by_year_columns(first, last) ==
    IF last < first THEN <<>>
    ELSE [k \in 1..(last - first + 1) |-> year_column(first + k - 1)]

\* re.search(r"\d{4}-\d{4}", column)
search_year_pattern(column) ==
    \E i \in 1..Len(column) :
        /\ i + 8 <= Len(column)
        /\ \A k \in 0..3 : IsDigit(column[i + k]) /\ IsDigit(column[i + 5 + k])
        /\ column[i + 4] = "-"

\* input_data_full.dropna(subset=["Nom"]), then str(s).strip() on every cell
clean_input_data(sheet) ==
    LET kept == Rows(sheet.rows, {i \in 1..Len(sheet.rows) :
                                      sheet.rows[i][Col_Nom] # NaN})
    IN  [columns |-> sheet.columns,
         rows |-> [i \in 1..Len(kept) |->
                      [c \in sheet.columns |-> str_strip(kept[i][c])]]]

\* "Régulier" only for a member who is "Régulier" in every year of the range
member_status_every_year(row, year_columns) ==
    IF \A k \in 1..Len(year_columns) : row[year_columns[k]] = Regulier
    THEN Regulier ELSE Collaborateur

\* "Régulier" if "Régulier" in yearly_status else "Collaborateur"
member_status(row, year_columns) ==
    IF \E k \in 1..Len(year_columns) : row[year_columns[k]] = Regulier
    THEN Regulier ELSE Collaborateur

\* ReferenceQuery.extract_authors_from_df: how it ends and the authors DataFrame
\* it returns ("KeyError" when a selected column is not in the sheet)
extract_authors_from_df(first, last, input_data_full) ==
    LET year_columns == author_status_by_year_columns(first, last)
        columns == input_data_full.columns
        rows == input_data_full.rows
    IN  IF \A k \in 1..Len(year_columns) : year_columns[k] \in columns
        THEN IF ~(Range(MemberColumns) \subseteq columns)
             THEN [outcome |-> "KeyError", authors |-> <<>>]
             ELSE LET selected == Range(MemberColumns) \cup Range(year_columns)
                      authors == [i \in 1..Len(rows) |->
                                     [c \in selected |->
                                         IF c = Col_OpenAlex
                                         THEN replace(rows[i][c], openalex_org, <<>>)
                                         ELSE IF c = Col_ORCID
                                         THEN replace(rows[i][c], orcid_org, <<>>)
                                         ELSE rows[i][c]]]
                      regular == Rows(authors,
                                      {i \in 1..Len(authors) :
                                          member_status(authors[i], year_columns)
                                              # Collaborateur})
                  IN  IF regular = <<>>
                      THEN [outcome |-> "exit_no_regular_member", authors |-> <<>>]
                      ELSE [outcome |-> "returned", authors |-> regular]
        ELSE IF ~(\E c \in columns : search_year_pattern(c))
        THEN IF Len(rows) = 0
             THEN [outcome |-> "exit_empty_file", authors |-> <<>>]
             ELSE IF ~(Range(ListColumns) \subseteq columns)
             THEN [outcome |-> "KeyError", authors |-> <<>>]
             ELSE [outcome |-> "returned",
                   authors |-> [i \in 1..Len(rows) |->
                                   [c \in Range(ListColumns) |-> rows[i][c]]]]
        ELSE [outcome |-> "exit_range_exceeds_data", authors |-> <<>>]

\* int(scopus_id) of a cell that holds decimal digits
RECURSIVE int(_)
int(s) ==
    IF s = <<>> THEN 0
    ELSE 10 * int(SubSeq(s, 1, Len(s) - 1))
         + (CHOOSE d \in 0..9 : Digits[d + 1] = s[Len(s)])

\* int(scopus_id), 0 on ValueError
scopus_id_or_0(cell) ==
    IF cell # <<>> /\ \A i \in 1..Len(cell) : IsDigit(cell[i]) THEN int(cell) ELSE 0

\* openalex_id if openalex_id and re.search(r"^A\d{10}$", openalex_id) else ""
openalex_id_or_empty(cell) ==
    IF Len(cell) = 11 /\ cell[1] = "A" /\ \A i \in 2..11 : IsDigit(cell[i])
    THEN cell ELSE <<>>

\* the first check of ReferenceQuery.__init__ that ends the run, in the order
\* of the code; "" when the object is constructed
init_failure(c) ==
    IF /\ c.publications_search_database = "Scopus"
       /\ \E k \in 1..Len(c.publication_types) :
              c.publication_types[k][1] = "Articles" /\ c.publication_types[k][2] # "ar"
    THEN "exit_openalex_publication_types"
    ELSE IF c.pub_year_first > c.pub_year_last THEN "exit_search_range"
    ELSE IF c.in_excel_file = "missing" THEN "exit_in_excel_file_missing"
    ELSE IF c.in_excel_file = "locked" THEN "exit_in_excel_file_locked"
    ELSE IF c.out_excel_file = "locked" THEN "exit_out_excel_file_locked"
    ELSE IF Col_Nom \notin c.sheet.columns THEN "KeyError"
    ELSE extract_authors_from_df(c.pub_year_first, c.pub_year_last,
                                 clean_input_data(c.sheet)).outcome

\* the authors DataFrame of a ReferenceQuery that is constructed
init_authors(c) ==
    extract_authors_from_df(c.pub_year_first, c.pub_year_last,
                            clean_input_data(c.sheet)).authors

\* ReferenceQuery.local_affiliations, the normalized names
Sherbrooke == <<"S","h","e","r","b","r","o","o","k","e">>
Universite_de_Sherbrooke == <<"U","n","i","v","e","r","s","i","t","e_acute"," ","d","e"," ","S","h","e","r","b","r","o","o","k","e">>
MIT == <<"M","I","T">>
local_affiliations == <<to_lower_no_accents_no_hyphens(Sherbrooke)>>

-----------------------------------------------------------------------------
(* ReferenceQuery.extract_authors_from_df on sheets of two members tabulated *)
(* by fiscal year, and on simple lists of names                              *)

FirstYear == 2022
LastYear == 2024

\* a roster as a simple list of names
ListSheet(r) ==
    [columns |-> Range(ListColumns),
     rows |-> [i \in 1..Len(r.names) |->
                  [c \in Range(ListColumns) |->
                      IF c = Col_Nom THEN r.names[i][1]
                      ELSE IF c = Col_Prenom THEN r.names[i][2]
                      ELSE IF r.ids[i] = 0 THEN NaN ELSE str(r.ids[i])]]]

\* the row of a member, with a status for each fiscal year of the sheet
PersonRow(name, id, year_columns, status) ==
    [c \in Range(MemberColumns) \cup year_columns |->
        IF c = Col_Nom THEN name[1]
        ELSE IF c = Col_Prenom THEN name[2]
        ELSE IF c = Col_ID_Scopus THEN str(id)
        ELSE IF c \in year_columns THEN status[c]
        ELSE NaN]

ExtractSheets ==
    {ListSheet(r) : r \in RosterChoices}
        \cup UNION {
               {[columns |-> Range(MemberColumns) \cup Y,
                 rows |-> << PersonRow(<<Charette, Paul>>, 111, Y, s1),
                             PersonRow(<<Hunter, Ian>>, 222, Y, s2) >>] :
                    s1 \in [Y -> {Regulier, Collaborateur}],
                    s2 \in [Y -> {Regulier, Collaborateur}]} :
               Y \in SUBSET Range(author_status_by_year_columns(FirstYear, LastYear))}

InitExtract ==
    /\ \E first \in FirstYear..LastYear, last \in FirstYear..LastYear,
          sheet \in ExtractSheets :
           /\ first <= last
           /\ ex_in = Some([first |-> first, last |-> last, sheet |-> sheet])
    /\ ex_out = NoVal
    /\ FlagIdle
    /\ result_again = NoVal
    /\ MainIdle
    /\ RunIdleButOther
    /\ NormIdle
    /\ MatchIdle

\* the sheet is read as ReferenceQuery.__init__ reads it, then
\* extract_authors_from_df is called
ExtractAuthors ==
    /\ IsSome(ex_in) /\ ex_out = NoVal
    /\ ex_out' = Some(extract_authors_from_df(Val(ex_in).first, Val(ex_in).last,
                                              clean_input_data(Val(ex_in).sheet)))
    /\ UNCHANGED <<ex_in, flagVars, result_again, mainVars, source, pc, idx, rosterVars,
                   pubVars, usptoVars, espacenetVars, harnessVars>>

NextExtract == ExtractAuthors

SpecExtract == InitExtract /\ [][NextExtract]_vars

-----------------------------------------------------------------------------
(* The "Affl/ID" column of the author profiles found by name: search_scopus.py *)
(* and search_openalex.py, applied to one roster and one profile row          *)

\* reference_query.au_id_to_index.get(key), the dictionary being built by
\* enumerate: the index of the last roster entry whose ID is key
au_id_to_index_get(ids, key) ==
    LET found == {i \in 1..Len(ids) : ids[i] = key}
    IN  IF found = {} THEN NoVal
        ELSE Some(CHOOSE i \in found : \A j \in found : j <= i)

\* au_id_index is not None and the last name of that roster entry is the
\* surname of the row, both normalized
au_id_match(names, au_id_index, surname) ==
    /\ IsSome(au_id_index)
    /\ to_lower_no_accents_no_hyphens(names[Val(au_id_index)][1])
           = to_lower_no_accents_no_hyphens(surname)

\* the if/elif chain that ends both functions
affl_id(affiliation_match, id_match) ==
    IF affiliation_match /\ id_match THEN Some("Affl. + ID")
    ELSE IF affiliation_match THEN Some("Affl.")
    ELSE IF id_match THEN Some("ID")
    ELSE NoVal

\* search_scopus.py: set_affiliation_and_id; row.eid is the string of digits
\* that ends the EID of the profile
set_affiliation_and_id(names, ids, row) ==
    IF row.affiliation = NoVal THEN NoVal
    ELSE LET local_affiliation_match ==
                 \E k \in 1..Len(local_affiliations) :
                     In(local_affiliations[k],
                        to_lower_no_accents_no_hyphens(Val(row.affiliation)))
             au_id_index == au_id_to_index_get(ids, int(Val(row.eid)))
         IN  affl_id(local_affiliation_match,
                     au_id_match(names, au_id_index, Val(row.surname)))

\* re.search(r"A\d{10}", s): match.group(), None without match
search_openalex_id(s) ==
    LET starts == {p \in 1..Len(s) :
                      /\ p + 10 <= Len(s)
                      /\ s[p] = "A"
                      /\ \A i \in 1..10 : IsDigit(s[p + i])}
    IN  IF starts = {} THEN NoVal
        ELSE LET p == CHOOSE q \in starts : \A r \in starts : q <= r
             IN  Some(SubSeq(s, p, p + 10))

\* search_openalex.py: set_affiliation_and_id_column
set_affiliation_and_id_column(names, ids, row) ==
    LET affiliation_match ==
            \E k \in 1..Len(local_affiliations) :
                IF row.Affiliations # NoVal /\ Val(row.Affiliations) # <<>>
                THEN \E t \in 1..Len(Val(row.Affiliations)) :
                         In(local_affiliations[k],
                            to_lower_no_accents_no_hyphens(Val(row.Affiliations)[t]))
                ELSE FALSE
        au_id_index ==
            IF row.OpenAlex_profile # <<>>
            THEN LET match == search_openalex_id(row.OpenAlex_profile)
                 IN  IF match # NoVal THEN au_id_to_index_get(ids, Val(match))
                     ELSE NoVal
            ELSE NoVal
    IN  affl_id(affiliation_match, au_id_match(names, au_id_index, row.Surname))

\* f'=HYPERLINK("{author["id"]}")', the id being an OpenAlex URL
openalex_hyperlink(openalex_id) ==
    <<"=","H","Y","P","E","R","L","I","N","K","(","\"">>
        \o openalex_org \o openalex_id \o <<"\"",")">>

OpenAlexId1 == <<"A","0","0","0","0","0","0","0","0","0","1">>
OpenAlexId2 == <<"A","0","0","0","0","0","0","0","0","0","2">>
OpenAlexId9 == <<"A","0","0","0","0","0","0","0","0","0","9">>
HUNTER == <<"H","U","N","T","E","R">>

\* rosters: two authors with their IDs, two authors of one last name, an
\* author without ID, and one ID entered for both authors
FlagRosters ==
    {[names |-> << <<Charette, Paul>>, <<Hunter, Ian>> >>,
      au_ids |-> <<111, 222>>, openalex_ids |-> <<OpenAlexId1, OpenAlexId2>>],
     [names |-> << <<Charette, Paul>>, <<Charette, Jean>> >>,
      au_ids |-> <<111, 222>>, openalex_ids |-> <<OpenAlexId1, OpenAlexId2>>],
     [names |-> << <<Charette, Paul>>, <<Hunter, Ian>> >>,
      au_ids |-> <<111, 0>>, openalex_ids |-> <<OpenAlexId1, <<>> >>],
     [names |-> << <<Charette, Paul>>, <<Hunter, Ian>> >>,
      au_ids |-> <<111, 111>>, openalex_ids |-> <<OpenAlexId1, OpenAlexId1>>]}

\* rows of AuthorSearch, whose affiliation may be None, and the row of None
\* that query_scopus_author_profiles_by_name adds after the profiles of a name
ScopusProfileRows ==
    [affiliation : {NoVal, Some(Universite_de_Sherbrooke), Some(MIT)},
     eid : {Some(str(111)), Some(str(222)), Some(str(999))},
     surname : {Some(Charette), Some(HUNTER)}]
        \cup {[affiliation |-> NoVal, eid |-> NoVal, surname |-> NoVal]}

\* rows of query_author_profiles_by_name_openalex
OpenAlexProfileRows ==
    [Affiliations : {NoVal, Some(<<MIT>>), Some(<<MIT, Universite_de_Sherbrooke>>)},
     OpenAlex_profile : {openalex_hyperlink(OpenAlexId1),
                         openalex_hyperlink(OpenAlexId2),
                         openalex_hyperlink(OpenAlexId9)},
     Surname : {Charette, HUNTER}]

InitFlag ==
    /\ \E roster \in FlagRosters :
          \/ \E row \in ScopusProfileRows :
                 fl_in = Some([db |-> "Scopus", roster |-> roster, row |-> row])
          \/ \E row \in OpenAlexProfileRows :
                 fl_in = Some([db |-> "OpenAlex", roster |-> roster, row |-> row])
    /\ fl_out = NoVal
    /\ ex_in = NoVal /\ ex_out = NoVal
    /\ result_again = NoVal
    /\ MainIdle
    /\ RunIdleButOther
    /\ NormIdle
    /\ MatchIdle

\* _flag_matched_scopus_author_ids_and_affiliations on the row
FlagScopusProfile ==
    /\ IsSome(fl_in) /\ fl_out = NoVal /\ Val(fl_in).db = "Scopus"
    /\ fl_out' = Some(set_affiliation_and_id(Val(fl_in).roster.names,
                                             Val(fl_in).roster.au_ids,
                                             Val(fl_in).row))
    /\ UNCHANGED <<fl_in, ex_in, ex_out, result_again, mainVars, source, pc, idx,
                   rosterVars, pubVars, usptoVars, espacenetVars, harnessVars>>

\* _flag_matched_openalex_author_ids_and_affiliations on the row
FlagOpenAlexProfile ==
    /\ IsSome(fl_in) /\ fl_out = NoVal /\ Val(fl_in).db = "OpenAlex"
    /\ fl_out' = Some(set_affiliation_and_id_column(Val(fl_in).roster.names,
                                                    Val(fl_in).roster.openalex_ids,
                                                    Val(fl_in).row))
    /\ UNCHANGED <<fl_in, ex_in, ex_out, result_again, mainVars, source, pc, idx,
                   rosterVars, pubVars, usptoVars, espacenetVars, harnessVars>>

NextFlag == FlagScopusProfile \/ FlagOpenAlexProfile

SpecFlag == InitFlag /\ [][NextFlag]_vars

-----------------------------------------------------------------------------
(* The check of an OpenAlex profile against the roster entry it was fetched  *)
(* for (search_openalex.py); the harness shares fl_in and fl_out             *)

IsLetter(c) == \E k \in 1..Len(LowerLetters) : c = LowerLetters[k] \/ c = UpperLetters[k]

\* utils.py: re.sub(r"\s[A-Za-z]\.?\s", " ", full_name), the matches taken
\* from left to right without overlap
RECURSIVE remove_middle_initial_from(_, _)
remove_middle_initial_from(full_name, i) ==
    IF i > Len(full_name) THEN <<>>
    ELSE LET at(k) == IF i + k <= Len(full_name) THEN full_name[i + k] ELSE ""
             starts == IsSpace(at(0)) /\ IsLetter(at(1))
         IN  IF starts /\ at(2) = "." /\ IsSpace(at(3))
             THEN <<" ">> \o remove_middle_initial_from(full_name, i + 4)
             ELSE IF starts /\ IsSpace(at(2))
             THEN <<" ">> \o remove_middle_initial_from(full_name, i + 3)
             ELSE <<full_name[i]>> \o remove_middle_initial_from(full_name, i + 1)

remove_middle_initial(full_name) == remove_middle_initial_from(full_name, 1)

\* the condition of the "NAME" error: the display name differs and all(...)
\* of the alternative names being equal to the roster name
name_mismatch(author, name) ==
    LET roster_name == to_lower_no_accents_no_hyphens(name[2] \o <<" ">> \o name[1])
    IN  /\ remove_middle_initial(to_lower_no_accents_no_hyphens(author.display_name))
               # remove_middle_initial(roster_name)
        /\ \A k \in 1..Len(author.display_name_alternatives) :
               to_lower_no_accents_no_hyphens(author.display_name_alternatives[k])
                   = roster_name

\* any(any(local affiliation name in display name)) over a list of display names
local_affiliation_match(display_names) ==
    \E t \in 1..Len(display_names) :
        \E k \in 1..Len(local_affiliations) :
            In(to_lower_no_accents_no_hyphens(local_affiliations[k]),
               to_lower_no_accents_no_hyphens(display_names[t]))

\* _check_author_name_and_affiliation_correspondance: the error string
check_author_name_and_affiliation_correspondance(author, name) ==
    LET e == IF name_mismatch(author, name) THEN "NAME" ELSE ""
        institution_match == local_affiliation_match(author.last_known_institutions)
        affiliation_match == local_affiliation_match(author.affiliations)
    IN  IF ~institution_match /\ ~affiliation_match
        THEN (IF e # "" THEN "NAME Affl" ELSE "Affl")
        ELSE e

Paul_G_Charette == Paul \o <<" ", "G", ".", " ">> \o Charette
P_Charette == <<"P", ".", " ">> \o Charette
Ian_W_Hunter == Ian \o <<" ", "W", " ">> \o Hunter

\* Authors()[openalex_id]: display name, alternative names, institutions
OpenAlexAuthors ==
    [display_name : {Paul_Charette, Paul_G_Charette, P_Charette, Ian_Hunter, Ian_W_Hunter},
     display_name_alternatives :
         {<<>>, <<Paul_Charette>>, <<P_Charette>>, <<Ian_Hunter>>,
          <<Paul_Charette, P_Charette>>, <<P_Charette, Paul_Charette>>,
          <<Paul_Charette, Paul_Charette>>},
     last_known_institutions : {<<>>, <<MIT>>, <<Universite_de_Sherbrooke>>},
     affiliations : {<<>>, <<MIT, Universite_de_Sherbrooke>>}]

InitCheck ==
    /\ \E author \in OpenAlexAuthors :
          \E name \in {<<Charette, Paul>>, <<Hunter, Ian>>} :
              fl_in = Some([db |-> "OpenAlexCheck", author |-> author, name |-> name])
    /\ fl_out = NoVal
    /\ ex_in = NoVal /\ ex_out = NoVal
    /\ result_again = NoVal
    /\ MainIdle
    /\ RunIdleButOther
    /\ NormIdle
    /\ MatchIdle

\* query_author_profiles_by_id_openalex: the check of one profile
CheckProfile ==
    /\ IsSome(fl_in) /\ fl_out = NoVal /\ Val(fl_in).db = "OpenAlexCheck"
    /\ fl_out' = Some(check_author_name_and_affiliation_correspondance(
                          Val(fl_in).author, Val(fl_in).name))
    /\ UNCHANGED <<fl_in, ex_in, ex_out, result_again, mainVars, source, pc, idx,
                   rosterVars, pubVars, usptoVars, espacenetVars, harnessVars>>

SpecCheck == InitCheck /\ [][CheckProfile]_vars

-----------------------------------------------------------------------------
(* main() (pyrefsearch.py): ReferenceQuery(...), then run_reference_search, *)
(* which for "Publications" is query_publications_and_patents with the two  *)
(* patent searches switched off (uspto_patent_search and                    *)
(* espacenet_patent_search false in pyrefsearch.toml)                       *)

\* ReferenceQuery.__init__ ends in sys.exit()
ReferenceQueryInitExits ==
    /\ source = "scopus" /\ pc = "construct"
    /\ init_failure(cfg) \notin {"returned", "KeyError"}
    /\ errors' = Append(errors, diagnostic(init_failure(cfg), <<>>))
    /\ pc' = "exit"
    /\ exit_status' = Some(0)
    /\ UNCHANGED <<source, idx, rosterVars, pubVars, usptoVars, espacenet_max_retries,
                   retries, loopVars, patent_families_raw, patent_families, espacenetOut,
                   harnessVars, result_again, extractVars, results_summary, cfg, queries, report_written,
                   author_profiles>>

\* ReferenceQuery.__init__ selects a column the sheet does not have: KeyError,
\* which nothing catches
ReferenceQueryInitRaises ==
    /\ source = "scopus" /\ pc = "construct"
    /\ init_failure(cfg) = "KeyError"
    /\ pc' = "raised"
    /\ exit_status' = Some(1)
    /\ UNCHANGED <<source, idx, rosterVars, pubVars, usptoVars, espacenetVars,
                   harnessVars, result_again, extractVars, results_summary, cfg, queries, report_written,
                   author_profiles>>

\* ReferenceQuery.__init__ returns: the roster is loaded
ReferenceQueryInitReturns ==
    /\ source = "scopus" /\ pc = "construct"
    /\ init_failure(cfg) = "returned"
    /\ LET authors == init_authors(cfg)
       IN  /\ au_names' = [i \in 1..Len(authors) |->
                              <<authors[i][Col_Nom], authors[i][Col_Prenom]>>]
           /\ au_ids' = [i \in 1..Len(authors) |->
                            scopus_id_or_0(authors[i][Col_ID_Scopus])]
           /\ openalex_ids' =
                  IF Len(authors) > 0 /\ Col_OpenAlex \in DOMAIN authors[1]
                  THEN [i \in 1..Len(authors) |->
                           openalex_id_or_empty(authors[i][Col_OpenAlex])]
                  ELSE <<>>
    /\ pc' = "run"
    /\ UNCHANGED <<source, idx, pubVars, usptoVars, espacenetVars, harnessVars,
                   otherVars>>

\* run_reference_search: the Scopus API is initialised, then the search type
\* selects the query function
RunReferenceSearch ==
    /\ source = "scopus" /\ pc = "run"
    /\ cfg.search_type \in {"Publications", "Profils"}
    /\ pc' = IF cfg.search_type = "Publications" THEN "profiles_by_id"
             ELSE "profiles_by_name"
    /\ idx' = 1
    /\ UNCHANGED <<source, rosterVars, pubVars, usptoVars, espacenetVars,
                   harnessVars, otherVars>>

\* run_reference_search with another search type: an error message, and the
\* function and main() return
RunReferenceSearchInvalidType ==
    /\ source = "scopus" /\ pc = "run"
    /\ cfg.search_type \notin {"Publications", "Profils"}
    /\ errors' = Append(errors, diagnostic("search_type", <<>>))
    /\ pc' = "end"
    /\ exit_status' = Some(0)
    /\ UNCHANGED <<source, idx, rosterVars, pubVars, usptoVars, espacenet_max_retries,
                   retries, loopVars, patent_families_raw, patent_families, espacenetOut,
                   harnessVars, result_again, extractVars, results_summary, cfg, queries, report_written,
                   author_profiles>>

\* what AuthorRetrieval can return for an author ID; for an ID that Scopus
\* does not know it returns nothing and raises ("identifiant Scopus inconnu")
ScopusAuthorProfiles(au_id) ==
    IF au_id = 111
    THEN {[surname |-> Charette, given_name |-> Paul,
           affiliation |-> Some(Universite_de_Sherbrooke), parent |-> NoVal]}
    ELSE IF au_id = 222
    THEN {[surname |-> Hunter, given_name |-> Ian,
           affiliation |-> Some(a), parent |-> NoVal] :
              a \in {MIT, Universite_de_Sherbrooke}}
    ELSE {}

\* one turn of the loop of query_scopus_author_profiles_by_id, AuthorRetrieval
\* succeeding or the author having no ID
ScopusRetrieveAuthor ==
    /\ source = "scopus" /\ pc = "profiles_by_id" /\ idx <= Len(au_names)
    /\ IF au_ids[idx] > 0
       THEN /\ \E author \in ScopusAuthorProfiles(au_ids[idx]) :
                  author_profiles' =
                      Append(author_profiles,
                             [nom |-> Some(author.surname),
                              prenom |-> Some(author.given_name),
                              id |-> Some(au_ids[idx]),
                              affiliation |-> author.affiliation,
                              parent |-> author.parent])
            /\ queries' = Append(queries, <<"AuthorRetrieval", idx>>)
       ELSE /\ author_profiles' =
                   Append(author_profiles,
                          [nom |-> NoVal, prenom |-> NoVal, id |-> NoVal,
                           affiliation |-> NoVal, parent |-> NoVal])
            /\ UNCHANGED queries
    /\ idx' = idx + 1
    /\ UNCHANGED <<source, pc, rosterVars, pubVars, usptoVars, espacenetVars,
                   harnessVars, result_again, extractVars, results_summary, cfg, exit_status, report_written>>

\* AuthorRetrieval raises ScopusException: error message, sys.exit()
ScopusRetrieveAuthorFails ==
    /\ source = "scopus" /\ pc = "profiles_by_id" /\ idx <= Len(au_names)
    /\ au_ids[idx] > 0
    /\ queries' = Append(queries, <<"AuthorRetrieval", idx>>)
    /\ errors' = Append(errors, diagnostic("AuthorRetrieval", au_names[idx]))
    /\ pc' = "exit"
    /\ exit_status' = Some(0)
    /\ UNCHANGED <<source, idx, rosterVars, pubVars, usptoVars, espacenet_max_retries,
                   retries, loopVars, patent_families_raw, patent_families, espacenetOut,
                   harnessVars, result_again, extractVars, results_summary, cfg, report_written, author_profiles>>

\* _check_author_name_correspondance: the error of one author
query_error(input_last_name, row) ==
    IF row.nom = NoVal THEN Some("Aucun identifiant Scopus")
    ELSE LET mismatch ==
                 to_lower_no_accents_no_hyphens(Val(row.nom))
                     # to_lower_no_accents_no_hyphens(input_last_name)
             affiliation_tl ==
                 IF row.affiliation = NoVal THEN <<>>
                 ELSE to_lower_no_accents_no_hyphens(Val(row.affiliation))
             parent_affiliation_tl ==
                 IF row.parent = NoVal THEN <<>>
                 ELSE to_lower_no_accents_no_hyphens(Val(row.parent))
             non_local ==
                 \A k \in 1..Len(local_affiliations) :
                     /\ ~In(local_affiliations[k], affiliation_tl)
                     /\ ~In(local_affiliations[k], parent_affiliation_tl)
         IN  IF mismatch /\ non_local
             THEN Some("Disparite de noms de famille / Affiliation non locale")
             ELSE IF non_local THEN Some("Affiliation non locale")
             ELSE IF mismatch THEN Some("Disparite de noms de famille")
             ELSE NoVal

\* the author profiles with the column "Erreurs"; the name of an author
\* without ID is entered from the roster
check_author_name_correspondance(names, authors) ==
    [i \in 1..Len(authors) |->
        [nom |-> IF authors[i].nom = NoVal THEN Some(names[i][1]) ELSE authors[i].nom,
         prenom |-> IF authors[i].nom = NoVal THEN Some(names[i][2])
                    ELSE authors[i].prenom,
         id |-> authors[i].id,
         erreurs |-> query_error(names[i][1], authors[i]),
         affiliation |-> authors[i].affiliation,
         parent |-> authors[i].parent]]

\* after the loop of query_scopus_author_profiles_by_id: the column "Erreurs";
\* query_scopus_publications starts
ScopusProfilesReturn ==
    /\ source = "scopus" /\ pc = "profiles_by_id" /\ idx > Len(au_names)
    /\ author_profiles' = check_author_name_correspondance(au_names, author_profiles)
    /\ pc' = "scopus_loop"
    /\ idx' = 1
    /\ UNCHANGED <<source, rosterVars, pubVars, usptoVars, espacenetVars,
                   harnessVars, result_again, extractVars, results_summary, cfg, exit_status, queries,
                   report_written>>

\* query_publications_and_patents after query_scopus_publications: the counts
\* of every publication type that has publications are added to the author
\* profiles; query_scopus_author_profiles_by_name starts
MainAddCounts ==
    /\ source = "scopus" /\ pc = "done" /\ cfg # NoVal
    /\ author_profiles' =
           IF result = <<>> THEN author_profiles
           ELSE [i \in 1..Len(author_profiles) |->
                    [nom |-> author_profiles[i].nom,
                     prenom |-> author_profiles[i].prenom,
                     id |-> author_profiles[i].id,
                     erreurs |-> author_profiles[i].erreurs,
                     affiliation |-> author_profiles[i].affiliation,
                     parent |-> author_profiles[i].parent,
                     counts |-> [k \in {k \in 1..Len(publication_type_codes) :
                                           \E j \in 1..Len(result) :
                                               result[j].subtype
                                                   = publication_type_codes[k]}
                                   |-> pub_type_counts[k][i]]]]
    /\ pc' = "profiles_by_name"
    /\ idx' = 1
    /\ UNCHANGED <<source, rosterVars, pubVars, usptoVars, espacenetVars,
                   harnessVars, result_again, extractVars, results_summary, cfg, exit_status, queries,
                   report_written>>

\* one turn of the loop of query_scopus_author_profiles_by_name, AuthorSearch
\* succeeding (the profiles it finds are not kept in this model of the run)
ScopusSearchAuthorByName ==
    /\ source = "scopus" /\ pc = "profiles_by_name" /\ idx <= Len(au_names)
    /\ queries' = Append(queries, <<"AuthorSearch", idx>>)
    /\ idx' = idx + 1
    /\ UNCHANGED <<source, pc, rosterVars, pubVars, usptoVars, espacenetVars,
                   harnessVars, result_again, extractVars, results_summary, cfg, exit_status, report_written,
                   author_profiles>>

\* AuthorSearch raises ScopusException, which nothing catches there
ScopusSearchAuthorByNameRaises ==
    /\ source = "scopus" /\ pc = "profiles_by_name" /\ idx <= Len(au_names)
    /\ queries' = Append(queries, <<"AuthorSearch", idx>>)
    /\ pc' = "raised"
    /\ exit_status' = Some(1)
    /\ UNCHANGED <<source, idx, rosterVars, pubVars, usptoVars, espacenetVars,
                   harnessVars, result_again, extractVars, results_summary, cfg, report_written, author_profiles>>

\* publications_all[publications_all["subtype"] == pub_code] for every type,
\* the empty list when there is no publication
publications_dfs_list_by_pub_type(codes, publications_all) ==
    IF publications_all = <<>> THEN <<>>
    ELSE [k \in 1..Len(codes) |->
             Rows(publications_all, {i \in 1..Len(publications_all) :
                                        publications_all[i].subtype = codes[k]})]

\* len(df[df["Nb co-auteurs locaux"] > 1])
nb_joint(df) ==
    Cardinality({i \in 1..Len(df) :
                    /\ IsSome(df[i].nb_co_auteurs_locaux)
                    /\ Val(df[i].nb_co_auteurs_locaux) > 1})

\* _create_results_summary_df without patents: the rows (results, values,
\* co_authors) of the search information and of every publication type
create_results_summary_df(c, nb_authors, dfs) ==
    << <<NoVal, NoVal, Some("Conjointes")>>,
       <<Some("Nb d'auteur.e.s"), Some(nb_authors), NoVal>>,
       <<Some("Annee de debut"), Some(c.pub_year_first), NoVal>>,
       <<Some("Annee de fin"), Some(c.pub_year_last), NoVal>> >>
    \o [k \in 1..Len(c.publication_types) |->
           IF dfs = <<>> THEN <<Some(c.publication_types[k][1]), NoVal, NoVal>>
           ELSE <<Some(c.publication_types[k][1]),
                  Some(Len(dfs[k])),
                  IF dfs[k] = <<>> THEN NoVal ELSE Some(nb_joint(dfs[k]))>>]

\* write_reference_query_results_to_excel (or the ExcelWriter of
\* query_author_profiles), then main() returns
WriteReport ==
    /\ source = "scopus" /\ pc = "profiles_by_name" /\ idx > Len(au_names)
    /\ results_summary' =
           IF cfg.search_type = "Publications"
           THEN Some(create_results_summary_df(
                         cfg, Len(au_ids),
                         publications_dfs_list_by_pub_type(publication_type_codes,
                                                           result)))
           ELSE NoVal
    /\ report_written' = TRUE
    /\ pc' = "end"
    /\ exit_status' = Some(0)
    /\ UNCHANGED <<source, idx, rosterVars, pubVars, usptoVars, espacenetVars,
                   harnessVars, result_again, extractVars, cfg, queries,
                   author_profiles>>

\* pyrefsearch.toml and the files of a run that is in order
BaseConfiguration(sheet) ==
    [search_type |-> "Publications",
     publications_search_database |-> "Scopus",
     publication_types |-> << <<"Articles", "ar">>, <<"Conf.", "cp">> >>,
     pub_year_first |-> 2024,
     pub_year_last |-> 2024,
     in_excel_file |-> "readable",
     out_excel_file |-> "absent",
     sheet |-> sheet]

\* a list of names whose only row has no name
EmptyListSheet ==
    [columns |-> Range(ListColumns),
     rows |-> << [c \in Range(ListColumns) |-> NaN] >>]

\* a list of names without the column "Prénom"
NoPrenomSheet ==
    [columns |-> {Col_Nom, Col_ID_Scopus},
     rows |-> << [c \in {Col_Nom, Col_ID_Scopus} |->
                     IF c = Col_Nom THEN Charette ELSE str(111)] >>]

\* a row of a sheet tabulated by fiscal year
MemberRow(nom, prenom, id, openalex, year_columns, status) ==
    [c \in Range(MemberColumns) \cup Range(year_columns) |->
        IF c = Col_Nom THEN nom
        ELSE IF c = Col_Prenom THEN prenom
        ELSE IF c = Col_ID_Scopus THEN id
        ELSE IF c = Col_OpenAlex THEN openalex
        ELSE IF c \in Range(year_columns)
        THEN status[CHOOSE k \in 1..Len(year_columns) : year_columns[k] = c]
        ELSE NaN]

A0000000001 == openalex_org \o <<"A","0","0","0","0","0","0","0","0","0","1">>

\* the 3IT members by fiscal year 2023-2024 and 2024-2025: one regular member
\* and one collaborator, or two collaborators
MemberSheet(status_of_first) ==
    LET year_columns == author_status_by_year_columns(2023, 2024)
    IN  [columns |-> Range(MemberColumns) \cup Range(year_columns),
         rows |-> << MemberRow(Charette, Paul, str(111), A0000000001, year_columns,
                               <<Collaborateur, status_of_first>>),
                     MemberRow(Hunter, Ian, str(222), NaN, year_columns,
                               <<Collaborateur, Collaborateur>>) >>]

\* a roster whose second author has an ID that Scopus does not know
UnknownIdRoster ==
    [names |-> << <<Charette, Paul>>, <<Hunter, Ian>> >>,
     ids |-> <<111, 333>>, oa |-> <<"A0000000001", "A0000000002">>]

Sheets ==
    {ListSheet(r) : r \in RosterChoices \cup {UnknownIdRoster}}
        \cup {EmptyListSheet, NoPrenomSheet,
              MemberSheet(Regulier), MemberSheet(Collaborateur)}

\* the publication types of a Scopus search, and those of an OpenAlex search
\* with and without a type "Articles"
PublicationTypeChoices ==
    {<< <<"Articles", "ar">>, <<"Conf.", "cp">> >>,
     << <<"Articles", "journal-article">>, <<"Prepublications", "preprint">> >>,
     << <<"Prepublications", "preprint">> >>}

AllConfigurations ==
    [search_type : {"Publications", "Profils", "Brevets"},
     publications_search_database : {"Scopus"},
     publication_types : PublicationTypeChoices,
     pub_year_first : {2022, 2024, 2025},
     pub_year_last : {2024},
     in_excel_file : {"missing", "locked", "readable"},
     out_excel_file : {"absent", "locked", "writable"},
     sheet : Sheets]

\* the roster of two authors of different names who both have an ID
TwoAuthorsWithID ==
    CHOOSE r \in RosterChoices : r.names[2] = <<Hunter, Ian>> /\ r.ids[2] > 0

\* the configurations whose run searches the publications of every author:
\* the one in order on every sheet, and a variant of it
RunConfigurations ==
    {BaseConfiguration(sheet) : sheet \in Sheets}
        \cup {[BaseConfiguration(ListSheet(TwoAuthorsWithID)) EXCEPT
                  !.publication_types = << <<"Prepublications", "preprint">> >>,
                  !.out_excel_file = "writable"]}

\* those, and every configuration whose run ends earlier
Configurations ==
    RunConfigurations
        \cup {c \in AllConfigurations :
                 c.search_type # "Publications" \/ init_failure(c) # "returned"}

InitMain ==
    /\ source = "scopus" /\ pc = "construct" /\ idx = 0
    /\ cfg \in Configurations
    /\ au_names = <<>> /\ au_ids = <<>> /\ openalex_ids = <<>>
    /\ publications = <<>> /\ pub_type_counts_by_author = <<>>
    /\ result = <<>> /\ pub_type_counts = <<>> /\ warnings = <<>>
    /\ UsptoIdle
    /\ EspacenetIdle /\ espacenet_max_retries = 0
    /\ result_again = NoVal
    /\ exit_status = NoVal /\ queries = <<>>
    /\ report_written = FALSE /\ author_profiles = <<>>
    /\ results_summary = NoVal
    /\ ExtractIdle
    /\ NormIdle
    /\ MatchIdle

NextMain ==
    \/ ReferenceQueryInitExits
    \/ ReferenceQueryInitRaises
    \/ ReferenceQueryInitReturns
    \/ RunReferenceSearch
    \/ RunReferenceSearchInvalidType
    \/ ScopusRetrieveAuthor
    \/ ScopusRetrieveAuthorFails
    \/ ScopusProfilesReturn
    \/ ScopusQueryAuthor
    \/ ScopusQueryFails
    \/ ScopusReturn
    \/ MainAddCounts
    \/ ScopusSearchAuthorByName
    \/ ScopusSearchAuthorByNameRaises
    \/ WriteReport

SpecMain == InitMain /\ [][NextMain]_vars

-----------------------------------------------------------------------------
(* The run of one query function on one roster *)

Sources == {"scopus", "openalex", "uspto", "espacenet"}

Init ==
    /\ source \in Sources
    /\ \E r \in RosterChoices \cup (IF source = "scopus" THEN {ShortIdRoster} ELSE {}) :
           /\ au_names = r.names
           /\ au_ids = r.ids
           /\ openalex_ids = r.oa
    /\ publications = <<>>
    /\ pub_type_counts_by_author = <<>>
    /\ result = <<>>
    /\ pub_type_counts = <<>>
    /\ warnings = <<>>
    /\ UsptoIdle
    /\ EspacenetIdle
    /\ OtherIdle
    /\ source = "scopus" => InitScopus
    /\ source = "openalex" => InitOpenAlex
    /\ source = "uspto" => InitUspto
    /\ source = "espacenet" => InitEspacenet
    /\ espacenet_max_retries \in (IF source = "espacenet" THEN {0, MaxRetries}
                                  ELSE {MaxRetries})
    /\ NormIdle
    /\ MatchIdle

Next ==
    \/ ScopusQueryAuthor
    \/ ScopusQueryFails
    \/ ScopusReturn
    \/ ScopusCleanUpAgain
    \/ OpenAlexQueryAuthor
    \/ OpenAlexQueryRaises
    \/ OpenAlexReturn
    \/ OpenAlexReturnRaises
    \/ OpenAlexCleanUpAgain
    \/ UsptoQueryPatents
    \/ UsptoQueryApplications
    \/ EspacenetSearchSucceeds
    \/ EspacenetSearchFails
    \/ EspacenetSearchNotAttempted
    \/ EspacenetDropDuplicates
    \/ EspacenetGetSucceeds
    \/ EspacenetGetFails
    \/ EspacenetReturn

Spec == Init /\ [][Next]_vars

-----------------------------------------------------------------------------
(* Claims on the normalizer *)

\* C1: the normalizer is idempotent: normalizing a normalized string gives
\* the same string back.
C1_Idempotent == IsSome(nm_nns) => Val(nm_nns) = Val(nm_ns)

\* the normalizer of pyrefsearch.py, which replaces hyphens before it strips,
\* is idempotent on the same inputs
C1_OldIdempotent == IsSome(nm_oldold) => Val(nm_oldold) = Val(nm_old)

\* base letter of a character: case and accent removed, hyphen taken as space
BaseChar(c) ==
    IF c \in {"e_acute", "E_ACUTE", "E", "e"} THEN "e"
    ELSE IF c \in {"c_cedilla", "C", "c"} THEN "c"
    ELSE IF c = "-" THEN " "
    ELSE LowerChar(c)

\* s and t differ only in letter case, in diacritics or in hyphen versus space
DifferOnlyInCaseAccentHyphen(s, t) ==
    /\ Len(s) = Len(t)
    /\ \A i \in 1..Len(s) : BaseChar(s[i]) = BaseChar(t[i])

\* C2: two strings that differ only in letter case, in Latin diacritics or in
\* hyphen versus space normalize to the same string, and "Eric-Paul" (with
\* E acute) and "eric paul" both normalize to "eric paul".
C2_Insensitive ==
    /\ (IsSome(nm_ns) /\ IsSome(nm_nt) /\ DifferOnlyInCaseAccentHyphen(nm_s, nm_t))
           => Val(nm_ns) = Val(nm_nt)
    /\ (IsSome(nm_ns) /\ nm_s \in {EricPaulAccent, eric_paul}) => Val(nm_ns) = eric_paul

-----------------------------------------------------------------------------
(* Claims on the roster matchers *)

\* the matcher of the specification: both normalized names are substrings of
\* the same normalized inventor string
BothNamesInOneInventor(inventors, lastname, firstname) ==
    \E k \in 1..Len(inventors) :
        LET cand == to_lower_no_accents_no_hyphens(inventors[k])
        IN  /\ In(to_lower_no_accents_no_hyphens(lastname), cand)
            /\ In(to_lower_no_accents_no_hyphens(firstname), cand)

\* the last names of the roster entries the specification's matcher accepts
RECURSIVE ExpectedLocalInventors(_, _)
ExpectedLocalInventors(inventors, names) ==
    IF names = <<>> THEN <<>>
    ELSE (IF BothNamesInOneInventor(inventors, names[1][1], names[1][2])
          THEN <<names[1][1]>> ELSE <<>>)
             \o ExpectedLocalInventors(inventors, Tail(names))

\* C3: in every patent source a roster entry is listed as local inventor iff
\* its normalized last name and its normalized first name are both substrings
\* of one normalized inventor string.
C3_MatchIffBothNames ==
    /\ IsSome(m_uspto) => Val(m_uspto) = ExpectedLocalInventors(m_inventors, m_au_names)
    /\ IsSome(m_espacenet) =>
           Val(m_espacenet) = ExpectedLocalInventors(m_inventors, m_au_names)
    /\ IsSome(m_tabulate) =>
           \A i \in 1..Len(m_au_names) :
               Val(m_tabulate)[i] = BothNamesInOneInventor(m_inventors, m_au_names[i][1],
                                                      m_au_names[i][2])

\* the two matchers that test both names do satisfy it
C3_UsptoAndTabulate ==
    /\ IsSome(m_uspto) => Val(m_uspto) = ExpectedLocalInventors(m_inventors, m_au_names)
    /\ IsSome(m_tabulate) =>
           \A i \in 1..Len(m_au_names) :
               Val(m_tabulate)[i] = BothNamesInOneInventor(m_inventors, m_au_names[i][1],
                                                      m_au_names[i][2])

\* matches(last, first, candidate) as computed by the USPTO column and by
\* inventor_match, once both have run on that single entry and candidate
MatcherRanOn(lastname, firstname, candidate) ==
    /\ m_au_names = << <<lastname, firstname>> >>
    /\ m_inventors = <<candidate>>
    /\ IsSome(m_uspto)
    /\ IsSome(m_tabulate)

MatcherSays(b) ==
    /\ (Val(m_uspto) # <<>>) = b
    /\ Val(m_tabulate)[1] = b

\* C4 as stated: matches("Charette", "Paul", "P. Charette (CA)") is true and
\* matches("Charette", "Paul", "Paul Charrette") is false.
C4_Original ==
    /\ MatcherRanOn(Charette, Paul, P_Charette_CA) => MatcherSays(TRUE)
    /\ MatcherRanOn(Charette, Paul, Paul_Charrette) => MatcherSays(FALSE)

\* C4 amended: matches("Charette", "Paul", "P. Charette (CA)") is false, the
\* first name "paul" not being a substring of "p. charette (ca)", and
\* matches("Charette", "Paul", "Paul Charrette") is false.
C4_Amended ==
    /\ MatcherRanOn(Charette, Paul, P_Charette_CA) => MatcherSays(FALSE)
    /\ MatcherRanOn(Charette, Paul, Paul_Charrette) => MatcherSays(FALSE)

C4_Witness == MatcherRanOn(Charette, Paul, P_Charette_CA)

-----------------------------------------------------------------------------
(* Claims on the output records of the four sources *)

Finished(src) == source = src /\ pc = "done"

\* the count the specification attaches to a list of local authors
ExpectedCount(local_authors) ==
    IF Len(local_authors) <= 1 THEN NoVal ELSE Some(Len(local_authors))

\* C5: in every output record of every source the local co-author or
\* co-inventor count is None when the list of local authors has at most one
\* entry and the length of the list otherwise; it is never 0 and never 1.
C5_LocalCount ==
    /\ source = "scopus" =>
           \A i \in 1..Len(result) :
               /\ result[i].nb_co_auteurs_locaux = ExpectedCount(result[i].auteurs_locaux)
               /\ result[i].nb_co_auteurs_locaux \notin {Some(0), Some(1)}
    /\ source = "openalex" =>
           \A i \in 1..Len(result) :
               /\ result[i].collab_interne = ExpectedCount(result[i].auteurs_locaux)
               /\ result[i].collab_interne \notin {Some(0), Some(1)}
    /\ source = "uspto" =>
           \A rows \in {uspto_patents, uspto_patent_applications} :
               \A i \in 1..Len(rows) :
                   /\ rows[i].nb_co_inventeurs_locaux =
                          ExpectedCount(rows[i].inventeurs_locaux)
                   /\ rows[i].nb_co_inventeurs_locaux \notin {Some(0), Some(1)}
    /\ source = "espacenet" =>
           \A rows \in {espacenet_applications, espacenet_patents} :
               \A i \in 1..Len(rows) :
                   /\ rows[i].nb_co_inventeurs_locaux =
                          ExpectedCount(rows[i].inventeurs_locaux)
                   /\ rows[i].nb_co_inventeurs_locaux \notin {Some(0), Some(1)}

\* a Scopus output with a record of two local authors and a record of at most one
C5_Witness ==
    /\ Finished("scopus")
    /\ \E i, j \in 1..Len(result) :
           /\ Len(result[i].auteurs_locaux) = 2
           /\ result[i].nb_co_auteurs_locaux = Some(2)
           /\ Len(result[j].auteurs_locaux) <= 1
           /\ result[j].nb_co_auteurs_locaux = NoVal

\* list is a subsequence of labels: its entries are entries of labels, each
\* used at most once, in the order of labels
IsSubsequence(list, labels) ==
    \E f \in [1..Len(list) -> 1..Len(labels)] :
        /\ \A k \in 1..Len(list) : list[k] = labels[f[k]]
        /\ \A k, l \in 1..Len(list) : k < l => f[k] < f[l]

\* the roster as the sources write it: last names (Scopus and the patent
\* sources), "first last" (OpenAlex)
RosterLastNames == [a \in 1..Len(au_names) |-> au_names[a][1]]
RosterFullNames == [a \in 1..Len(au_names) |-> au_names[a][2] \o <<" ">> \o au_names[a][1]]

\* C6: in every deduplicated record the list of local authors is a
\* duplicate-free subsequence of the roster: every entry is a roster entry,
\* each roster entry appears at most once, and the entries are in roster order;
\* also when one author's query returns the same work more than once and when
\* two roster entries share a last name.
C6_LocalAuthorsSubsequenceOfRoster ==
    /\ source = "scopus" =>
           \A i \in 1..Len(result) :
               IsSubsequence(result[i].auteurs_locaux, RosterLastNames)
    /\ source = "openalex" =>
           \A i \in 1..Len(result) :
               IsSubsequence(result[i].auteurs_locaux, RosterFullNames)
    /\ source = "uspto" =>
           \A rows \in {uspto_patents, uspto_patent_applications} :
               \A i \in 1..Len(rows) :
                   IsSubsequence(rows[i].inventeurs_locaux, RosterLastNames)
    /\ source = "espacenet" =>
           \A rows \in {espacenet_applications, espacenet_patents} :
               \A i \in 1..Len(rows) :
                   IsSubsequence(rows[i].inventeurs_locaux, RosterLastNames)

\* the number of entries of a ";"-separated list
NbEntries(list) == Cardinality({i \in 1..Len(list) : list[i] = ";"}) + 1

EID1_Charette ==
    [eid |-> "EID1", title |-> <<"A">>, subtype |-> "ar",
     coverDate |-> <<"2","0","2","4","-","0","2">>,
     author_ids |-> join(<<";">>, <<str(111), str(999)>>),
     author_names |-> join(<<";">>, <<Charette_Paul, Doe_Jane>>)]
EID1_Charette_Hunter ==
    [eid |-> "EID1", title |-> <<"A">>, subtype |-> "ar",
     coverDate |-> <<"2","0","2","4","-","0","2">>,
     author_ids |-> join(<<";">>, <<str(111), str(222), str(999)>>),
     author_names |-> join(<<";">>, <<Charette_Paul, Hunter_Ian, Doe_Jane>>)]

\* C7: when two fetched records share a unique id and differ in the
\* completeness of the author list, the record kept carries the longer list,
\* whatever the fetch order; with the roster [(Charette, Paul, 111), (Hunter,
\* Ian, 222)], EID1 fetched with authors {111, 999} and then with authors
\* {111, 222, 999}, one EID1 record remains, with local authors [Charette,
\* Hunter] and count 2.
C7_KeepsLongerAuthorList ==
    /\ Finished("scopus") =>
           \A i \in 1..Len(result) : \A j \in 1..Len(publications) :
               publications[j].eid = result[i].eid =>
                   NbEntries(result[i].author_ids) >= NbEntries(publications[j].author_ids)
    /\ Finished("openalex") =>
           \A i \in 1..Len(result) : \A j \in 1..Len(publications) :
               match_criteria(publications[j]) = match_criteria(result[i]) =>
                   Len(result[i].author_names) >= Len(publications[j].author_names)
    /\ ( /\ Finished("scopus")
         /\ au_names = << <<Charette, Paul>>, <<Hunter, Ian>> >>
         /\ au_ids = <<111, 222>>
         /\ publications = <<EID1_Charette, EID1_Charette_Hunter>> ) =>
           /\ Len(result) = 1
           /\ result[1].eid = "EID1"
           /\ result[1].auteurs_locaux = <<Charette, Hunter>>
           /\ result[1].nb_co_auteurs_locaux = Some(2)

\* the number of warnings that name the title
NbWarnings(title) == Cardinality({k \in 1..Len(warnings) : warnings[k].title = title})

\* the USPTO rows fetched, inventors in the "name (country)" form
UsptoFetched ==
    [i \in 1..Len(uspto_raw_patents \o uspto_raw_applications) |->
        LET row == (uspto_raw_patents \o uspto_raw_applications)[i]
        IN  [appl_id |-> row.appl_id, titre |-> row.patent_title,
             inventeurs |-> simplify_inventors(row.inventors)]]

\* the espacenet families fetched, after the removal of the duplicates
EspacenetFetched ==
    [i \in 1..Len(patent_families_raw) |->
        LET info == PatentInfo(patent_families_raw[i].patent_id)
        IN  [famille |-> info.family_id, titre |-> info.title,
             inventeurs |-> info.inventors_original]]

\* C8: every record of a final output set has a non-empty list of local
\* authors: a deduplicated record without local author is removed from the
\* output, with exactly one warning that names its title; for the Scopus
\* publications and for the USPTO and espacenet patents.
C8_NoRecordWithoutLocalAuthor ==
    /\ Finished("scopus") =>
           /\ \A i \in 1..Len(result) : result[i].auteurs_locaux # <<>>
           /\ \A j \in 1..Len(publications) :
                  find_local_coauthors(publications[j].author_ids, au_names, au_ids) = <<>>
                      => NbWarnings(publications[j].title) = 1
    /\ Finished("uspto") =>
           /\ \A rows \in {uspto_patents, uspto_patent_applications} :
                  \A i \in 1..Len(rows) : rows[i].inventeurs_locaux # <<>>
           /\ \A j \in 1..Len(UsptoFetched) :
                  ExpectedLocalInventors(UsptoFetched[j].inventeurs, au_names) = <<>>
                      => NbWarnings(UsptoFetched[j].titre) = 1
    /\ Finished("espacenet") =>
           /\ \A rows \in {espacenet_applications, espacenet_patents} :
                  \A i \in 1..Len(rows) : rows[i].inventeurs_locaux # <<>>
           /\ \A j \in 1..Len(EspacenetFetched) :
                  ExpectedLocalInventors(EspacenetFetched[j].inventeurs, au_names) = <<>>
                      => NbWarnings(EspacenetFetched[j].titre) = 1

\* C9: deduplication and clean-up never drop a record that has a local
\* author: for every fetched record whose authors or inventors match a roster
\* entry, the final output of its source holds a record with the same merge
\* key; also for an OpenAlex work without title and for a USPTO patent whose
\* local inventor is not tagged (CA).
C9_NoMatchedRecordDropped ==
    /\ Finished("scopus") =>
           \A j \in 1..Len(publications) :
               find_local_coauthors(publications[j].author_ids, au_names, au_ids) # <<>>
                   => \E i \in 1..Len(result) : result[i].eid = publications[j].eid
    /\ Finished("openalex") =>
           \A j \in 1..Len(publications) :
               \E i \in 1..Len(result) :
                   match_criteria(result[i]) = match_criteria(publications[j])
    /\ Finished("uspto") =>
           \A j \in 1..Len(UsptoFetched) :
               ExpectedLocalInventors(UsptoFetched[j].inventeurs, au_names) # <<>>
                   => \E i \in 1..Len(uspto_patents \o uspto_patent_applications) :
                          (uspto_patents \o uspto_patent_applications)[i].appl_id
                              = UsptoFetched[j].appl_id
    /\ Finished("espacenet") =>
           \A j \in 1..Len(EspacenetFetched) :
               ExpectedLocalInventors(EspacenetFetched[j].inventeurs, au_names) # <<>>
                   => \E i \in 1..Len(patent_families) :
                          patent_families[i].famille = EspacenetFetched[j].famille

\* C10: after deduplication each merge key has exactly one record: no two
\* Scopus publications of the output share an eid, no two espacenet families
\* share a family_id, no two OpenAlex publications of the output share (title,
\* subtype, doi); and the output has as many records as the fetched records
\* have distinct keys.
C10_OneRecordPerKey ==
    [][ /\ (source = "scopus" /\ pc' = "done") =>
               /\ \A i, j \in 1..Len(result') :
                      result'[i].eid = result'[j].eid => i = j
               /\ Len(result') =
                      Cardinality({publications[i].eid : i \in 1..Len(publications)})
        /\ (source = "openalex" /\ pc' = "done") =>
               /\ \A i, j \in 1..Len(result') :
                      match_criteria(result'[i]) = match_criteria(result'[j]) => i = j
               /\ Len(result') =
                      Cardinality({match_criteria(publications[i]) :
                                      i \in 1..Len(publications)})
        /\ (source = "espacenet" /\ pc = "espacenet_search"
                /\ pc' = "espacenet_families") =>
               /\ \A i, j \in 1..Len(patent_families_raw') :
                      patent_families_raw'[i].family_id = patent_families_raw'[j].family_id
                          => i = j
               /\ Len(patent_families_raw') =
                      Cardinality({patent_families_raw[i].family_id :
                                      i \in 1..Len(patent_families_raw)})
      ]_vars

\* the rows of a DataFrame, as a set
RowSet(df) == {df[i] : i \in 1..Len(df)}

\* C11: deduplication is idempotent: the deduplication step applied to its
\* own output gives the same set of records, with the same local authors and
\* the same local author count; nothing more is merged or dropped.
C11_DedupIdempotent ==
    IsSome(result_again) =>
        /\ Len(Val(result_again)) = Len(result)
        /\ RowSet(Val(result_again)) = RowSet(result)

\* an OpenAlex output with a record of two local authors, deduplicated again
C11_Witness ==
    /\ source = "openalex" /\ pc = "again"
    /\ IsSome(result_again)
    /\ \E i \in 1..Len(result) : Len(result[i].auteurs_locaux) = 2

\* C12: every espacenet fetch (the family search of an author, the detail
\* fetch of a family) is attempted at most espacenet_max_retries times; when
\* all attempts fail the run aborts with a diagnostic that names the author
\* and the likely cause; and the run never goes past a fetch that did not
\* succeed, whatever espacenet_max_retries is, 0 included.
C12_BoundedRetryThenAbort ==
    [][ source = "espacenet" =>
          \* a failed attempt is counted and the count stays within the cap
          /\ retries' <= espacenet_max_retries
          /\ retries' # retries => retries < espacenet_max_retries
          \* going on to the next author or family takes an attempt that succeeded
          /\ (pc \in {"espacenet_search", "espacenet_families"} /\ idx' = idx + 1) =>
                 retries < espacenet_max_retries
          \* the abort comes at the cap, with the diagnostic
          /\ (pc # "exit" /\ pc' = "exit") =>
                 /\ retries' = espacenet_max_retries
                 /\ Len(errors') = Len(errors) + 1
                 /\ errors'[Len(errors')].cause # ""
                 /\ pc = "espacenet_search" =>
                        errors'[Len(errors')].author = au_names[idx]
      ]_vars

\* C13: a ScopusException raised by AuthorRetrieval or ScopusSearch for a roster
\* author ends the run at once: the request that raised is the only one made
\* for that author, no request was or will be made for a later author, the
\* ended process takes no further step, and the report is not written.
C13_ScopusErrorFatalAtOnce ==
    [][ /\ pc \notin {"exit", "raised", "end"}
        /\ (/\ source = "scopus"
            /\ Len(errors') = Len(errors) + 1
            /\ errors'[Len(errors')].what \in {"AuthorRetrieval", "ScopusSearch"})
           => LET request == <<errors'[Len(errors')].what, idx>>
              IN  /\ pc' = "exit"
                  /\ queries' = Append(queries, request)
                  /\ Cardinality({k \in 1..Len(queries') : queries'[k] = request}) = 1
                  /\ \A k \in 1..Len(queries') :
                         queries'[k][1] = request[1] => queries'[k][2] <= idx
                  /\ ~report_written'
      ]_vars

\* ScopusSearch failed for the first of two authors who both have an ID
C13_Witness ==
    /\ source = "scopus" /\ pc = "exit" /\ cfg # NoVal
    /\ errors # <<>> /\ errors[Len(errors)].what = "ScopusSearch"
    /\ idx = 1 /\ Len(au_ids) = 2 /\ au_ids[2] > 0
    /\ Len(author_profiles) = 2
    /\ ~report_written

\* the run met a fatal condition: a diagnostic was printed and the run ended,
\* or an exception ended it
FatalCondition ==
    /\ source = "scopus" /\ cfg # NoVal
    /\ \/ pc \in {"exit", "raised"}
       \/ pc = "end" /\ errors # <<>>

\* C14: on each fatal condition the process ends with a non-zero exit status.
C14_FatalExitStatusNonZero ==
    FatalCondition => IsSome(exit_status) /\ Val(exit_status) # 0

\* the configuration errors: search range, publication types of the other
\* database, files, roster, search type
OpenAlexPublicationTypes(c) ==
    \E k \in 1..Len(c.publication_types) :
        c.publication_types[k][2] \in Range(openalex_type_codes)
RosterMalformedOrEmpty(sheet) ==
    \/ ~(Range(ListColumns) \subseteq sheet.columns)
    \/ \A i \in 1..Len(sheet.rows) : sheet.rows[i][Col_Nom] = NaN
ConfigurationError(c) ==
    \/ c.pub_year_first > c.pub_year_last
    \/ c.publications_search_database = "Scopus" /\ OpenAlexPublicationTypes(c)
    \/ c.in_excel_file \in {"missing", "locked"}
    \/ c.out_excel_file = "locked"
    \/ RosterMalformedOrEmpty(c.sheet)
    \/ c.search_type \notin {"Publications", "Profils"}

\* C15: a run whose configuration has an error sends no request to an external
\* database, writes no report, and does not end without a diagnostic.
C15_ConfigurationErrorBeforeAnyQuery ==
    (source = "scopus" /\ cfg # NoVal /\ ConfigurationError(cfg))
        => /\ queries = <<>>
           /\ ~report_written
           /\ pc = "end" => errors # <<>>

\* C16: extract_authors_from_df on a sheet that has the columns it selects.
\* If the sheet has the fiscal-year column of every year of the range, the rows
\* kept are exactly those with "Régulier" in one of these columns; if no column
\* of the sheet is tagged with fiscal years, every row is kept; otherwise the
\* run ends on the diagnostic of a range that exceeds the data.
FiscalYearColumns == {year_column(year) : year \in 2015..2035}
NamesOf(rows) == [i \in 1..Len(rows) |-> <<rows[i][Col_Nom], rows[i][Col_Prenom]>>]
C16_RosterExtraction ==
    IsSome(ex_out) =>
        LET first == Val(ex_in).first
            last == Val(ex_in).last
            data == clean_input_data(Val(ex_in).sheet)
            range_columns == {year_column(year) : year \in first..last}
            out == Val(ex_out)
        IN  IF range_columns \subseteq data.columns
            THEN /\ out.outcome # "exit_range_exceeds_data"
                 /\ NamesOf(out.authors) =
                        NamesOf(Rows(data.rows,
                                     {i \in 1..Len(data.rows) :
                                         \E c \in range_columns :
                                             data.rows[i][c] = Regulier}))
            ELSE IF data.columns \cap FiscalYearColumns = {}
            THEN /\ out.outcome # "exit_range_exceeds_data"
                 /\ NamesOf(out.authors) = NamesOf(data.rows)
            ELSE /\ out.outcome = "exit_range_exceeds_data"
                 /\ out.authors = <<>>

\* one of two members is kept, and the one dropped is "Régulier" in a fiscal
\* year outside the range
C16_Witness ==
    /\ IsSome(ex_out)
    /\ Val(ex_out).outcome = "returned"
    /\ Len(Val(ex_out).authors) = 1
    /\ LET sheet == Val(ex_in).sheet
       IN  \E i \in 1..Len(sheet.rows) :
               /\ sheet.rows[i][Col_Nom] # Val(ex_out).authors[1][Col_Nom]
               /\ \E c \in sheet.columns \cap FiscalYearColumns :
                      sheet.rows[i][c] = Regulier

\* the rows of the summary table for the publication types
SummaryOfTypes == SubSeq(Val(results_summary), 5, Len(Val(results_summary)))
RecordsOfType(k) ==
    {i \in 1..Len(result) : result[i].subtype = publication_type_codes[k]}
JointRecordsOfType(k) ==
    {i \in RecordsOfType(k) : result[i].nb_co_auteurs_locaux # NoVal}

\* C17: in the summary table the row of a publication type that has records
\* holds the number of records and the number of joint records (those whose
\* local author count is not null), None and not 0 when none is joint.
C17_SummaryCounts ==
    (source = "scopus" /\ report_written /\ IsSome(results_summary)) =>
        \A k \in 1..Len(publication_type_codes) :
            RecordsOfType(k) # {} =>
                SummaryOfTypes[k] =
                    <<Some(cfg.publication_types[k][1]),
                      Some(Cardinality(RecordsOfType(k))),
                      IF JointRecordsOfType(k) = {} THEN NoVal
                      ELSE Some(Cardinality(JointRecordsOfType(k)))>>

\* The local inventor column holds the last name of every roster entry matched
\* with the record: the entries of the column that stand for the roster entries
\* named surname, as pairs (record, position)
ListedAs(patents, surname) ==
    {<<i, k>> \in (1..Len(patents)) \X (1..Len(au_names)) :
        /\ k <= Len(patents[i].inventeurs_locaux)
        /\ patents[i].inventeurs_locaux[k] = surname}

\* the records the tabulation counts for the roster entries named surname, as
\* pairs (roster entry, rank of the record in the count of that entry)
TabulatedAs(patents, counts, surname) ==
    {<<a, n>> \in (1..Len(au_names)) \X (1..Len(patents)) :
        /\ au_names[a][1] = surname
        /\ IsSome(counts[a])
        /\ n <= Val(counts[a])}

\* the tabulation and the column agree: no count is 0, and for every roster
\* entry the counts of the entries of that last name add up to the number of
\* times the column lists that last name (with one entry of that last name:
\* the count is the number of records whose list includes the entry)
TabulationAgrees(patents, counts) ==
    /\ Len(counts) = Len(au_names)
    /\ \A a \in 1..Len(au_names) :
          /\ counts[a] # Some(0)
          /\ Cardinality(TabulatedAs(patents, counts, au_names[a][1]))
                 = Cardinality(ListedAs(patents, au_names[a][1]))

\* C18: for every patent set and every roster entry the count of the
\* per-author tabulation is the number of records of the set whose local
\* inventor list includes the entry (None when that number is 0).
C18_TabulationAgreesWithLocalInventors ==
    /\ (source = "uspto" /\ pc = "done") =>
           /\ TabulationAgrees(uspto_patents, uspto_patent_counts_by_author)
           /\ TabulationAgrees(uspto_patent_applications,
                               uspto_patent_application_counts_by_author)
    /\ (source = "espacenet" /\ pc = "done") =>
           /\ TabulationAgrees(espacenet_patents, espacenet_patent_counts_by_author)
           /\ TabulationAgrees(espacenet_applications,
                               espacenet_application_counts_by_author)

\* the data-quality problems of the roster row i, as the profile retrieved for
\* it shows them
NoExternalId(i) == au_ids[i] = 0
LastNameMismatch(i) ==
    /\ IsSome(author_profiles[i].id)
    /\ to_lower_no_accents_no_hyphens(Val(author_profiles[i].nom))
           # to_lower_no_accents_no_hyphens(au_names[i][1])
NonLocalAffiliation(i) ==
    /\ IsSome(author_profiles[i].id)
    /\ \A k \in 1..Len(local_affiliations) :
          /\ author_profiles[i].affiliation = NoVal
             \/ ~In(local_affiliations[k],
                    to_lower_no_accents_no_hyphens(Val(author_profiles[i].affiliation)))
          /\ author_profiles[i].parent = NoVal
             \/ ~In(local_affiliations[k],
                    to_lower_no_accents_no_hyphens(Val(author_profiles[i].parent)))
RowHasProblem(i) == NoExternalId(i) \/ LastNameMismatch(i) \/ NonLocalAffiliation(i)

\* the profiles have their column "Erreurs"
ProfilesChecked ==
    source = "scopus" /\ cfg # NoVal
        /\ pc \in {"scopus_loop", "done", "profiles_by_name", "end"}
        /\ author_profiles # <<>>

\* the run stopped in the retrieval of the profile of the author idx
HaltedInRetrieval ==
    /\ source = "scopus" /\ cfg # NoVal /\ pc = "exit"
    /\ errors # <<>> /\ errors[Len(errors)].what = "AuthorRetrieval"

\* C19: a data-quality problem of one roster row never halts the run: an author
\* without a valid ID is left out of the queries by ID, the row of an author
\* without ID, of another last name or of a non-local affiliation is flagged
\* in the column "Erreurs", a halt in the retrieval of a profile is never due
\* to the ID of the row, and the report is written after every author was
\* processed.
C19_DataQualityNeverHalts ==
    /\ (source = "scopus" /\ cfg # NoVal) =>
           \A q \in 1..Len(queries) :
               queries[q][1] \in {"AuthorRetrieval", "ScopusSearch"}
                   => au_ids[queries[q][2]] > 0
    /\ ProfilesChecked =>
           /\ Len(author_profiles) = Len(au_names)
           /\ \A i \in 1..Len(author_profiles) :
                  RowHasProblem(i) => author_profiles[i].erreurs # NoVal
    /\ HaltedInRetrieval => ScopusAuthorProfiles(au_ids[idx]) # {}
    /\ (source = "scopus" /\ report_written) =>
           \A i \in 1..Len(au_names) :
               /\ \E q \in 1..Len(queries) : queries[q] = <<"AuthorSearch", i>>
               /\ (au_ids[i] > 0 /\ cfg.search_type = "Publications") =>
                      /\ \E q \in 1..Len(queries) :
                             queries[q] = <<"AuthorRetrieval", i>>
                      /\ \E q \in 1..Len(queries) :
                             queries[q] = <<"ScopusSearch", i>>

\* the affiliation texts and the external ID of the profile row of the harness
ProfileAffiliations ==
    LET row == Val(fl_in).row
    IN  IF Val(fl_in).db = "Scopus"
        THEN (IF row.affiliation = NoVal THEN <<>> ELSE <<Val(row.affiliation)>>)
        ELSE (IF row.Affiliations = NoVal THEN <<>> ELSE Val(row.Affiliations))
ProfileSurname ==
    IF Val(fl_in).db = "Scopus" THEN Val(fl_in).row.surname
    ELSE Some(Val(fl_in).row.Surname)
ProfileIndex ==
    LET row == Val(fl_in).row
    IN  IF Val(fl_in).db = "Scopus"
        THEN (IF row.eid = NoVal THEN NoVal
              ELSE au_id_to_index_get(Val(fl_in).roster.au_ids, int(Val(row.eid))))
        ELSE (IF search_openalex_id(row.OpenAlex_profile) = NoVal THEN NoVal
              ELSE au_id_to_index_get(Val(fl_in).roster.openalex_ids,
                                      Val(search_openalex_id(row.OpenAlex_profile))))

\* some local affiliation name is a substring of a normalized affiliation text
AffiliationMatch ==
    \E k \in 1..Len(local_affiliations), t \in 1..Len(ProfileAffiliations) :
        In(local_affiliations[k],
           to_lower_no_accents_no_hyphens(ProfileAffiliations[t]))

\* the ID of the profile maps to a roster index and the last name of that
\* roster entry is the surname of the profile, both normalized
IdMatch ==
    /\ IsSome(ProfileIndex) /\ IsSome(ProfileSurname)
    /\ to_lower_no_accents_no_hyphens(Val(fl_in).roster.names[Val(ProfileIndex)][1])
           = to_lower_no_accents_no_hyphens(Val(ProfileSurname))

\* C20: the Affl/ID flag of a profile row is "Affl. + ID" when the affiliation
\* match and the ID match both succeed, "Affl." when only the affiliation
\* match does, "ID" when only the ID match does, and null otherwise.
C20_AfflIdFlag ==
    (IsSome(fl_in) /\ IsSome(fl_out)) =>
        /\ Val(fl_out) = Some("Affl. + ID") <=> (AffiliationMatch /\ IdMatch)
        /\ Val(fl_out) = Some("Affl.") <=> (AffiliationMatch /\ ~IdMatch)
        /\ Val(fl_out) = Some("ID") <=> (~AffiliationMatch /\ IdMatch)
        /\ Val(fl_out) = NoVal <=> (~AffiliationMatch /\ ~IdMatch)

\* date a comes no later than date b, an empty date coming last
DateLeqEmptyLast(a, b) ==
    IF a = <<>> THEN b = <<>>
    ELSE b = <<>> \/ StrLeq(a, b)

OrderedByTitle(patents) ==
    \A i, j \in 1..Len(patents) :
        i < j => StrLeq(patents[i].titre, patents[j].titre)

\* C21: the final publications are in non-decreasing order of cover date, the
\* records with an empty date last, and every final patent set is in order of
\* title.
C21_FinalOrder ==
    /\ (source \in {"scopus", "openalex"} /\ pc = "done") =>
           \A i, j \in 1..Len(result) :
               i < j => DateLeqEmptyLast(result[i].coverDate, result[j].coverDate)
    /\ (source = "uspto" /\ pc = "done") =>
           OrderedByTitle(uspto_patents) /\ OrderedByTitle(uspto_patent_applications)
    /\ (source = "espacenet" /\ pc = "done") =>
           OrderedByTitle(espacenet_patents) /\ OrderedByTitle(espacenet_applications)

\* the OpenAlex work a stored row was built from, and the authors of its
\* Crossref record (none when the lookup returned nothing)
WorkOf(row) == CHOOSE w \in OpenAlexWorks : HYPERLINK(w.id) = row.id
CrossrefAuthorsOf(w) == IF IsSome(w.crossref) THEN Val(w.crossref).authors ELSE <<>>
LongerAuthorList(w) ==
    IF Len(CrossrefAuthorsOf(w)) > Len(w.authors) THEN CrossrefAuthorsOf(w)
    ELSE w.authors

\* C22: the consolidation of the OpenAlex and Crossref records of a work never
\* raises, also when the Crossref lookup returned nothing; the row stored has
\* the longer of the two author lists, and a publication name as soon as one
\* of the two records has one.
C22_Consolidation ==
    source = "openalex" =>
        /\ ~(pc = "raised" /\ idx <= Len(au_names))
        /\ \A i \in 1..Len(publications) :
              LET w == WorkOf(publications[i])
              IN  /\ publications[i].author_names = LongerAuthorList(w)
                  /\ (IsSome(w.source_display_name)
                          \/ IsSome(publication_name_crossref(w)))
                         => IsSome(publications[i].publicationName)

\* the roster indices of the logged requests of one kind, in the order issued
QueriedIndices(kind) ==
    LET of_kind == SelectSeq(queries, LAMBDA q : q[1] = kind)
    IN  [k \in 1..Len(of_kind) |-> of_kind[k][2]]

\* the roster indices of a set, in increasing order
InRosterOrder(indices) ==
    SelectSeq([i \in 1..Len(au_names) |-> i], LAMBDA i : i \in indices)

AuthorsWithScopusId == {i \in 1..Len(au_ids) : au_ids[i] > 0}

AuthorsWithOpenAlexId == {i \in 1..Len(openalex_ids) : openalex_ids[i] # ""}

AuthorsWithName == 1..Len(au_names)

NonDecreasing(seq) == \A i, j \in 1..Len(seq) : i < j => seq[i] <= seq[j]

NbQueriesOf(kind, i) == Cardinality({k \in 1..Len(queries) : queries[k] = <<kind, i>>})

SuccessfulAttempt == EspacenetSearchSucceeds \/ EspacenetGetSucceeds

FailedAttempt == EspacenetSearchFails \/ EspacenetGetFails

\* C24: in each espacenet retry loop a fetch that succeeds after retries
\* failures has made retries + 1 calls and retries sleeps, with
\* retries + 1 <= espacenet_max_retries, and the loop is left at once (no
\* further call for the same author or family); a failed attempt ends the run
\* iff it is failure number espacenet_max_retries, and then it is not followed
\* by a sleep, while every earlier failure is followed by one sleep.
C24_RetryLoop ==
    [][/\ SuccessfulAttempt =>
              /\ success'
              /\ retries' + 1 <= espacenet_max_retries
              /\ nb_calls' = retries' + 1
              /\ nb_sleeps' = retries'
              /\ retries' = loop_retries
              /\ idx' = idx + 1
       /\ FailedAttempt =>
              /\ ~success'
              /\ retries' = loop_retries + 1
              /\ (pc' = "exit") <=> (retries' = espacenet_max_retries)
              /\ nb_calls' = retries'
              /\ nb_sleeps' = IF pc' = "exit" THEN retries' - 1 ELSE retries'
              /\ idx' = idx
      ]_vars

\* a fetch that has succeeded on its second attempt
C24_Witness_SecondAttempt ==
    /\ source = "espacenet" /\ pc = "espacenet_families"
    /\ success /\ retries = 1 /\ nb_calls = 2 /\ nb_sleeps = 1

\* the roster ID of entry i is exactly one of the ";"-separated author IDs
ExactAuthorId(i, author_ids) ==
    In(<<";">> \o str(au_ids[i]) \o <<";">>, <<";">> \o author_ids \o <<";">>)

LastNamesOf(indices) ==
    [k \in 1..Len(InRosterOrder(indices)) |-> au_names[InRosterOrder(indices)[k]][1]]

\* C25: in the result of the Scopus deduplicator the local co-authors of a
\* publication are the roster authors whose Scopus ID is positive and exactly
\* equal to one of the publication's author IDs: an ID that is only a proper
\* substring of an author ID gives no match, and an entry with ID 0 is never
\* listed.
C25_LocalCoauthorsByExactId ==
    (source = "scopus" /\ pc = "done") =>
        \A r \in 1..Len(result) :
            result[r].auteurs_locaux =
                LastNamesOf({i \in 1..Len(au_ids) :
                                au_ids[i] > 0 /\ ExactAuthorId(i, result[r].author_ids)})

ApplIds(patents) == {patents[i].appl_id : i \in 1..Len(patents)}

\* the applications of the second search that have a Canadian inventor and a
\* local inventor, by appl_id
FilteredApplicationIds ==
    {r.appl_id : r \in {rec \in Range(uspto_raw_applications) :
        /\ \E k \in 1..Len(rec.inventors) : rec.inventors[k].country = CA
        /\ uspto_local_inventors(simplify_inventors(rec.inventors), au_names) # <<>>}}

\* C26: after the two USPTO searches no application id is both in the pending
\* applications and in the granted patents, and an application that passed
\* the filters is missing from the pending applications only if its id is
\* the id of a granted patent of the output (which passed the same filters).
C26_PendingAndGrantedDisjoint ==
    (source = "uspto" /\ pc = "done") =>
        /\ ApplIds(uspto_patent_applications) \cap ApplIds(uspto_patents) = {}
        /\ FilteredApplicationIds \ ApplIds(uspto_patent_applications)
               \subseteq ApplIds(uspto_patents)
        /\ ApplIds(uspto_patent_applications) \subseteq FilteredApplicationIds

\* an application has been removed because its patent was granted, another
\* one stays pending
C26_Witness_Removed ==
    /\ source = "uspto" /\ pc = "done"
    /\ FilteredApplicationIds \ ApplIds(uspto_patent_applications) # {}
    /\ uspto_patent_applications # <<>>

\* the kind code (last two characters) of a publication number holds B or C
KindBorC(pid) ==
    \E k \in 1..Len(pid) : k >= Len(pid) - 1 /\ pid[k] \in {"B", "C"}

GrantedMembers(row) == {k \in 1..Len(row.members) : KindBorC(row.members[k].pid)}

ApplicationMembers(row) == {k \in 1..Len(row.members) : ~KindBorC(row.members[k].pid)}

\* number and date are those of a member of the class with the minimal date,
\* both empty if the class is empty
EarliestOf(number, date, row, class) ==
    IF class = {} THEN number = <<>> /\ date = <<>>
    ELSE /\ \E k \in class : row.members[k].pid = number /\ row.members[k].date = date
         /\ \A j \in class : StrLeq(date, row.members[j].date)

\* C27: in every stored espacenet family the earliest granted patent is a
\* member with B or C in its kind code whose date is minimal among these, the
\* earliest application is a member without B or C whose date is minimal
\* among those, a WO member if one has that minimal date; number and date of
\* a class without member are empty strings.
C27_EarliestMembers ==
    \A i \in 1..Len(patent_families) :
        LET row == patent_families[i]
        IN  /\ EarliestOf(row.premier_brevet_delivre, row.date_de_delivrance,
                          row, GrantedMembers(row))
            /\ EarliestOf(row.premier_depot, row.date_de_depot,
                          row, ApplicationMembers(row))
            /\ (\E j \in ApplicationMembers(row) :
                    /\ row.members[j].date = row.date_de_depot
                    /\ SubSeq(row.members[j].pid, 1, 2) = <<"W", "O">>)
                   => SubSeq(row.premier_depot, 1, 2) = <<"W", "O">>

\* a stored family whose earliest application is the WO member that ties
\* with an earlier-listed US member, and one whose earliest granted patent is
\* listed after a later granted patent
C27_Witness_TieAndLaterMember ==
    /\ \E i \in 1..Len(patent_families) :
           LET row == patent_families[i]
           IN  /\ SubSeq(row.premier_depot, 1, 2) = <<"W", "O">>
               /\ \E j \in ApplicationMembers(row) :
                      /\ row.members[j].date = row.date_de_depot
                      /\ row.members[j].pid # row.premier_depot
    /\ \E i \in 1..Len(patent_families) :
           LET row == patent_families[i]
           IN  \E j, k \in GrantedMembers(row) :
                  /\ j < k /\ row.members[k].pid = row.premier_brevet_delivre
                  /\ StrLess(row.members[k].date, row.members[j].date)

\* a roster author is an inventor of the family: last name and first name
\* both occur in one of its inventor strings
HasLocalInventor(family) ==
    \E a \in 1..Len(au_names) :
        inventor_match(family.inventeurs, au_names[a][1], au_names[a][2])

\* the date is not empty and lies in [pub_year_first-01-01, pub_year_last-12-31]
DateInSearchRange(date) ==
    /\ date # <<>>
    /\ ~StrLess(date, str(pub_year_first) \o <<"-","0","1","-","0","1">>)
    /\ ~StrLess(str(pub_year_last) \o <<"-","1","2","-","3","1">>, date)

Families(patents) == {patents[i].famille : i \in 1..Len(patents)}

\* C28: a stored family is in the espacenet granted set iff it has a local
\* inventor and its earliest granted date lies in the search range, and in
\* the pending set iff it has a local inventor and its earliest application
\* date lies in the range; an empty date keeps the family out of the set.
C28_GrantedAndPendingSets ==
    (source = "espacenet" /\ pc = "done") =>
        \A i \in 1..Len(patent_families) :
            LET family == patent_families[i]
            IN  /\ family.famille \in Families(espacenet_patents)
                       <=> (HasLocalInventor(family)
                               /\ DateInSearchRange(family.date_de_delivrance))
                /\ family.famille \in Families(espacenet_applications)
                       <=> (HasLocalInventor(family)
                               /\ DateInSearchRange(family.date_de_depot))

\* a list of one entry per roster author
OnePerAuthor(counts) == Len(counts) = Len(au_names)

\* entry a of the patent counts is the number of patents of the set that
\* roster author a invented, None for none
PatentCountsByPosition(counts, patents) ==
    /\ OnePerAuthor(counts)
    /\ \A a \in 1..Len(au_names) :
           LET n == Cardinality({i \in 1..Len(patents) :
                        inventor_match(patents[i].inventeurs,
                                       au_names[a][1], au_names[a][2])})
           IN  counts[a] = IF n > 0 THEN Some(n) ELSE NoVal

\* C29: the per-author lists a query function returns have one entry per
\* roster author, in roster order: during the loops entry idx is appended in
\* turn idx, an author without ID gets an entry of None values, and the
\* patent counts of position a are those of roster author a.
C29_OneEntryPerAuthor ==
    /\ (source \in {"scopus", "openalex"} /\ pc \in {"scopus_loop", "openalex_loop"}) =>
           Len(pub_type_counts_by_author) = idx - 1
    /\ (source \in {"scopus", "openalex"} /\ pc = "done") =>
           /\ OnePerAuthor(pub_type_counts_by_author)
           /\ \A k \in 1..Len(pub_type_counts) : OnePerAuthor(pub_type_counts[k])
           /\ \A a \in 1..Len(au_names) :
                  (IF source = "scopus" THEN au_ids[a] <= 0 ELSE openalex_ids[a] = "")
                      => \A k \in 1..Len(pub_type_counts) : pub_type_counts[k][a] = NoVal
    /\ (source = "uspto" /\ pc = "done") =>
           /\ PatentCountsByPosition(uspto_patent_counts_by_author, uspto_patents)
           /\ PatentCountsByPosition(uspto_patent_application_counts_by_author,
                                     uspto_patent_applications)
    /\ (source = "espacenet" /\ pc = "done") =>
           /\ PatentCountsByPosition(espacenet_patent_counts_by_author, espacenet_patents)
           /\ PatentCountsByPosition(espacenet_application_counts_by_author,
                                     espacenet_applications)

\* an OpenAlex run that has returned publications for a roster whose second
\* author has no OpenAlex ID
C29_Witness_AuthorWithoutId ==
    /\ source = "openalex" /\ pc = "done"
    /\ openalex_ids[2] = "" /\ result # <<>>
    /\ Len(pub_type_counts) > 0

CheckedAuthor == Val(fl_in).author

\* the normalized roster name "first last"
CheckedRosterName ==
    to_lower_no_accents_no_hyphens(Val(fl_in).name[2] \o <<" ">> \o Val(fl_in).name[1])

NameFlagged == Val(fl_out) \in {"NAME", "NAME Affl"}

DisplayNameDiffers ==
    remove_middle_initial(to_lower_no_accents_no_hyphens(CheckedAuthor.display_name))
        # CheckedRosterName

SomeAlternativeEqual ==
    \E k \in 1..Len(CheckedAuthor.display_name_alternatives) :
        to_lower_no_accents_no_hyphens(CheckedAuthor.display_name_alternatives[k])
            = CheckedRosterName

\* C30: the OpenAlex profile check flags "NAME" iff the display name
\* (normalized, middle initial removed) differs from the roster name
\* "first last" and no alternative display name equals the normalized roster
\* name; a profile with an alternative name equal to the roster name is never
\* flagged.
C30_NameFlag ==
    (IsSome(fl_in) /\ IsSome(fl_out) /\ Val(fl_in).db = "OpenAlexCheck") =>
        (NameFlagged <=> (DisplayNameDiffers /\ ~SomeAlternativeEqual))


=============================================================================
